---- MODULE Spec2Model ----
(***************************************************************************)
(* IE::Net lobby server: the session broker (src/broker/mod.rs, user.rs,   *)
(* channel.rs), the per-connection handler and writer (src/client.rs) and  *)
(* the supervisor (src/server.rs).                                         *)
(*                                                                         *)
(* Strings that the code inspects character by character (user, channel    *)
(* and game names) are sequences of one-character strings; literal texts   *)
(* that are only passed through are one-element sequences.                 *)
(***************************************************************************)
EXTENDS Integers, Sequences, FiniteSets, TLC

(* ------------------------------ bounds -------------------------------- *)
\* connection ids
NumConns == 2
\* Command events handled during a run of the broker alone
MaxCommands == 3
\* Command events handled during a run of the broker with the game commands
MaxGameCommands == 4
\* connections the listener accepts during a run of the whole server
SysConns == 2
\* frames the clients send during a run of the whole server beyond one accepted
\* Ident and one accepted Login per connection
MaxFrames == 1
\* capacity of a per-user outbound channel (64 in the program), scaled down
OutboxCap == 1
\* capacity of the broker's inbound event channel (256 in the program), scaled down
EventsCap == 2
\* reads of the socket during a run of the reader with its receive buffer
MaxReads == 6
\* the longest unterminated message ClientCommand::try_parse waits for
MaxMessageLen == 1024
\* the size of read_from_client's read_buf
ReadBufLen == 256

Conn == 1..NumConns

(* ------------------------------ strings ------------------------------- *)
sGeneral == <<"G", "e", "n", "e", "r", "a", "l">>
sgeneral == <<"g", "e", "n", "e", "r", "a", "l">>
sX == <<"X">>
sBad == <<"a", " ">>
sFoo == <<"F", "o">>
sfoo == <<"f", "o">>
sbar == <<"b">>
sSecret == <<"p", "w">>

UpperToLower ==
    [A |-> "a", B |-> "b", C |-> "c", D |-> "d", E |-> "e", F |-> "f", G |-> "g",
     H |-> "h", I |-> "i", J |-> "j", K |-> "k", L |-> "l", M |-> "m", N |-> "n",
     O |-> "o", P |-> "p", Q |-> "q", R |-> "r", S |-> "s", T |-> "t", U |-> "u",
     V |-> "v", W |-> "w", X |-> "x", Y |-> "y", Z |-> "z"]

to_ascii_lowercase(s) ==
    [i \in 1..Len(s) |-> IF s[i] \in DOMAIN UpperToLower THEN UpperToLower[s[i]] ELSE s[i]]

Digits == {"0", "1", "2", "3", "4", "5", "6", "7", "8", "9"}
Letters == DOMAIN UpperToLower \cup {UpperToLower[u] : u \in DOMAIN UpperToLower}

ALLOWED_NAME_CHARS == Letters \cup Digits \cup {"-", "_"}

ALLOWED_USERNAME_CHARS ==
    Letters \cup Digits \cup {"-", "_", ".", "|", "(", ")", "[", "]", "{", "}"}

only_allowed_chars_not_empty(input, allowed) ==
    input /= <<>> /\ \A i \in 1..Len(input) : input[i] \in allowed

DEFAULT_CHANNEL == sGeneral

(* ----------------------------- locations ------------------------------ *)
Nowhere == [k |-> "Nowhere", name |-> <<>>]
ChannelLoc(n) == [k |-> "Channel", name |-> n]
GameLoc(n) == [k |-> "Game", name |-> n]

Location_to_string(l) ==
    CASE l.k = "Channel" -> <<"#">> \o l.name
      [] l.k = "Game" -> <<"$">> \o l.name
      [] OTHER -> <<"[nowhere]">>

(* ------------------------------ messages ------------------------------ *)
\* a server message: its struct and the fields prepare_message renders
Msg(t, a) == [t |-> t, a |-> a]
WelcomeServerMessage == Msg("Welcome", <<DEFAULT_CHANNEL>>)
IdentServerMessage == Msg("Ident", <<>>)
RejectServerMessage(reason) == Msg("Reject", <<reason>>)
ErrorMessage(error) == Msg("/error", <<error>>)
NewChannelMessage(n) == Msg("/$channel", <<n, <<"0">>>>)
DropChannelMessage(n) == Msg("/&channel", <<n>>)
NewUserMessage(u) == Msg("$user", <<u, <<"0">>>>)
\* origin and destination are Options: <<>> is None, <<x>> is Some(x)
UserJoinedMessage(u, origin) == Msg("/$user", <<u, <<"0">>>> \o origin)
UserLeftMessage(u, destination) == Msg("/&user", <<u>> \o destination)
JoinChannelMessage(n) == Msg("/join", <<n>>)
SendMessage(u, m) == Msg("/send", <<u, m>>)
CreateGameMessage(n, pw, id) == Msg("/plays", <<n, pw, <<"0xcb">>, id>>)
JoinGameMessage(n, pw, id, ip_addr) == Msg("/playc", <<n, pw, id, ip_addr>>)
NewGameMessage(n, id) == Msg("/$play", <<n, <<"0">>, <<"0">>, <<"0">>, id, <<"0">>>>)
DropGameMessage(n) == Msg("/&play", <<n>>)
SyncStatsMessage(s) ==
    Msg("/syncstats", <<s.users_total, s.users_online, s.channels_total, s.games_total,
                        <<"0">>, <<>>, s.games_open>>)
PrivateMessage(from, to, location, message) == Msg("/msg", <<location, from, to, message>>)
SentPrivateMessage(to, message) == Msg("/msgc", <<to, message>>)

(* ------------------------------- GUIDs -------------------------------- *)
\* byte strings a client sends as password or GUID: a text Uuid::parse_str
\* rejects, or the text of a GUID
ZeroGuid == <<"0">>
Guids == {<<"1">>, <<"2">>}
IsGuidText(bytes) == bytes \in Guids \cup {ZeroGuid}

(* --------------------------- broker helpers --------------------------- *)
\* HashMap::insert
MapInsert(m, key, v) == [x \in DOMAIN m \cup {key} |-> IF x = key THEN v ELSE m[x]]
\* HashMap::remove
MapRemove(m, key) == [x \in DOMAIN m \ {key} |-> m[x]]
EmptyMap == [x \in {} |-> 0]

\* the orders in which a HashMap of the given keys may be iterated
Perms(S) == {f \in [1..Cardinality(S) -> S] : \A i, j \in 1..Cardinality(S) : f[i] = f[j] => i = j}

\* User::send on the sender handle of user id: one send the handler performs
User_send(b, id, msg) == [b EXCEPT !.out = Append(@, <<id, msg>>)]

SendEach(b, ids, msg) == [b EXCEPT !.out = @ \o [i \in 1..Len(ids) |-> <<ids[i], msg>>]]

\* send_to_all that stops after the first user
Users_send_to_first(b, ord, msg) ==
    LET live == SelectSeq(ord, LAMBDA i : i \in DOMAIN b.users)
    IN  SendEach(b, IF live = <<>> THEN <<>> ELSE <<Head(live)>>, msg)

Users_send_to_all(b, ord, msg) ==
    SendEach(b, SelectSeq(ord, LAMBDA i : i \in DOMAIN b.users), msg)

\* send_to_location that does not compare the locations
Users_send_to_everyone(b, ord, location, msg) ==
    SendEach(b, SelectSeq(ord, LAMBDA i : i \in DOMAIN b.users), msg)

Users_send_to_location(b, ord, location, msg) ==
    SendEach(b, SelectSeq(ord, LAMBDA i : i \in DOMAIN b.users /\ b.users[i].location = location), msg)

Users_users_in_location(b, ord, location) ==
    SelectSeq(ord, LAMBDA i : i \in DOMAIN b.users /\ b.users[i].location = location)

Users_occupied_locations(b) == {b.users[i].location : i \in DOMAIN b.users}

\* by_username looking the name up as given, not lowercased
Users_by_username_exact(b, username) ==
    IF username \in DOMAIN b.by_name /\ b.by_name[username] \in DOMAIN b.users
    THEN {b.by_name[username]}
    ELSE {}

Users_by_username(b, username) ==
    IF to_ascii_lowercase(username) \in DOMAIN b.by_name
         /\ b.by_name[to_ascii_lowercase(username)] \in DOMAIN b.users
    THEN {b.by_name[to_ascii_lowercase(username)]}
    ELSE {}

Users_insert(b, ord, user) ==
    LET b1 == Users_send_to_location(b, ord, user.location,
                                     UserJoinedMessage(user.username, <<>>))
    IN  [b1 EXCEPT !.by_name = MapInsert(@, to_ascii_lowercase(user.username), user.id),
                   !.users = MapInsert(@, user.id, user)]

\* update that stores the new entry before it sends the notices
Users_update_stored_first(b, ord, user) ==
    IF user.id \notin DOMAIN b.users
    THEN Users_insert(b, ord, user)
    ELSE LET prev == b.users[user.id]
             b0 == [b EXCEPT !.users = MapInsert(@, user.id, user)]
         IN  IF prev.location /= user.location
             THEN Users_send_to_location(
                      Users_send_to_location(b0, ord, user.location,
                          UserJoinedMessage(user.username,
                                            <<Location_to_string(prev.location)>>)),
                      ord, prev.location,
                      UserLeftMessage(user.username,
                                      <<Location_to_string(user.location)>>))
             ELSE b0

\* update that leaves the previous entry in by_id while it sends the notices
Users_update_in_place(b, ord, user) ==
    IF user.id \notin DOMAIN b.users
    THEN Users_insert(b, ord, user)
    ELSE LET prev == b.users[user.id]
             b1 == IF prev.location /= user.location
                   THEN Users_send_to_location(
                            Users_send_to_location(b, ord, user.location,
                                UserJoinedMessage(user.username,
                                                  <<Location_to_string(prev.location)>>)),
                            ord, prev.location,
                            UserLeftMessage(user.username,
                                            <<Location_to_string(user.location)>>))
                   ELSE b
         IN  [b1 EXCEPT !.users = MapInsert(@, user.id, user)]

Users_update(b, ord, user) ==
    IF user.id \notin DOMAIN b.users
    THEN Users_insert(b, ord, user)
    ELSE LET prev == b.users[user.id]
             b0 == [b EXCEPT !.users = MapRemove(@, user.id)]
             b1 == IF prev.location /= user.location
                   THEN Users_send_to_location(
                            Users_send_to_location(b0, ord, user.location,
                                UserJoinedMessage(user.username,
                                                  <<Location_to_string(prev.location)>>)),
                            ord, prev.location,
                            UserLeftMessage(user.username,
                                            <<Location_to_string(user.location)>>))
                   ELSE b0
         IN  [b1 EXCEPT !.users = MapInsert(@, user.id, user)]

\* remove that leaves the entry of the username index behind
Users_remove_keep_name(b, ord, id) ==
    IF id \in DOMAIN b.users
    THEN Users_send_to_location([b EXCEPT !.users = MapRemove(@, id)], ord,
                                b.users[id].location,
                                UserLeftMessage(b.users[id].username, <<>>))
    ELSE b

Users_remove(b, ord, id) ==
    IF id \in DOMAIN b.users
    THEN LET user == b.users[id]
             b0 == [b EXCEPT !.users = MapRemove(@, id),
                             !.by_name = MapRemove(@, to_ascii_lowercase(user.username))]
         IN  Users_send_to_location(b0, ord, user.location,
                                    UserLeftMessage(user.username, <<>>))
    ELSE b

\* get_or_create that takes a name in another letter case for a new channel
Channels_get_or_create_exact(b, ord, name) ==
    IF \A key \in DOMAIN b.channels : b.channels[key] /= name
    THEN Users_send_to_all(
             [b EXCEPT !.channels = MapInsert(@, to_ascii_lowercase(name), name)],
             ord, NewChannelMessage(name))
    ELSE b

Channels_get_or_create(b, ord, name) ==
    IF to_ascii_lowercase(name) \notin DOMAIN b.channels
    THEN Users_send_to_all(
             [b EXCEPT !.channels = MapInsert(@, to_ascii_lowercase(name), name)],
             ord, NewChannelMessage(name))
    ELSE b

Channels_remove(b, ord, name) ==
    IF to_ascii_lowercase(name) \in DOMAIN b.channels
    THEN Users_send_to_all(
             [b EXCEPT !.channels = MapRemove(@, to_ascii_lowercase(name))],
             ord, DropChannelMessage(b.channels[to_ascii_lowercase(name)]))
    ELSE b

RECURSIVE RemoveChannels(_, _, _)
RemoveChannels(b, ord, names) ==
    IF names = <<>> THEN b
    ELSE RemoveChannels(Channels_remove(b, ord, Head(names)), ord, Tail(names))

\* housekeeping that removes nothing
Channels_keep_empty_channels(b, ord, chOrd) == b

Channels_check_remove_empty_channels(b, ord, chOrd) ==
    LET occupied_locations == Users_occupied_locations(b)
        keys == SelectSeq(chOrd, LAMBDA key : key \in DOMAIN b.channels
                              /\ ChannelLoc(b.channels[key]) \notin occupied_locations)
        empty_channels == [i \in 1..Len(keys) |-> b.channels[keys[i]]]
    IN  RemoveChannels(b, ord, empty_channels)

Channels_announce_all(b, chOrd, id) ==
    LET keys == SelectSeq(chOrd, LAMBDA key : key \in DOMAIN b.channels)
    IN  [b EXCEPT !.out = @ \o [i \in 1..Len(keys) |->
                                   <<id, NewChannelMessage(b.channels[keys[i]])>>]]

(* ------------------------- broker: the handlers ------------------------ *)
RECURSIVE SendUserList(_, _, _)
\* one $user line per occupant, sent to the joining user
SendUserList(b, id, occupants) ==
    IF occupants = <<>> THEN b
    ELSE SendUserList(User_send(b, id, NewUserMessage(b.users[Head(occupants)].username)),
                      id, Tail(occupants))

\* join_channel that compares the name as typed with the user's location
Broker_join_channel_as_typed(b, ord, user, channel_name) ==
    IF ~only_allowed_chars_not_empty(channel_name, ALLOWED_NAME_CHARS)
    THEN User_send(b, user.id, ErrorMessage(<<"Invalid channel name">>))
    ELSE LET b1 == Channels_get_or_create(b, ord, channel_name)
             channel == b1.channels[to_ascii_lowercase(channel_name)]
         IN  IF ChannelLoc(channel_name) = user.location
             THEN b1
             ELSE LET b2 == User_send(b1, user.id, JoinChannelMessage(channel))
                      b3 == SendUserList(b2, user.id,
                                Users_users_in_location(b2, ord, ChannelLoc(channel)))
                  IN  Users_update(b3, ord, [user EXCEPT !.location = ChannelLoc(channel)])

Broker_join_channel(b, ord, user, channel_name) ==
    IF ~only_allowed_chars_not_empty(channel_name, ALLOWED_NAME_CHARS)
    THEN User_send(b, user.id, ErrorMessage(<<"Invalid channel name">>))
    ELSE LET b1 == Channels_get_or_create(b, ord, channel_name)
             channel == b1.channels[to_ascii_lowercase(channel_name)]
         IN  IF ChannelLoc(channel) = user.location
             THEN b1
             ELSE LET b2 == User_send(b1, user.id, JoinChannelMessage(channel))
                      b3 == SendUserList(b2, user.id,
                                Users_users_in_location(b2, ord, ChannelLoc(channel)))
                  IN  Users_update(b3, ord, [user EXCEPT !.location = ChannelLoc(channel)])

Broker_public_message(b, ord, user, message) ==
    Users_send_to_location(b, ord, user.location, SendMessage(user.username, message))

\* private_message that delivers a user's message to the whole location of the target
Broker_private_message_to_location(b, ord, user, target, message) ==
    LET key == to_ascii_lowercase(Tail(target))
        unknown == User_send(b, user.id, ErrorMessage(<<"Unknown target: ">> \o target))
    IN  CASE Head(target) = "#" ->
                 IF key \in DOMAIN b.channels
                 THEN LET to == <<"#">> \o b.channels[key]
                      IN  Users_send_to_location(
                              User_send(b, user.id, SentPrivateMessage(to, message)),
                              ord, ChannelLoc(b.channels[key]),
                              PrivateMessage(user.username, to,
                                             Location_to_string(user.location), message))
                 ELSE unknown
          [] Head(target) = "$" ->
                 IF key \in DOMAIN b.games
                 THEN LET to == <<"$">> \o b.games[key].name
                      IN  Users_send_to_location(
                              User_send(b, user.id, SentPrivateMessage(to, message)),
                              ord, GameLoc(b.games[key].name),
                              PrivateMessage(user.username, to,
                                             Location_to_string(user.location), message))
                 ELSE unknown
          [] OTHER ->
                 IF Users_by_username(b, target) /= {}
                 THEN LET recipient == b.users[CHOOSE i \in Users_by_username(b, target) : TRUE]
                      IN  Users_send_to_location(
                              User_send(b, user.id,
                                        SentPrivateMessage(recipient.username, message)),
                              ord, recipient.location,
                              PrivateMessage(user.username, recipient.username,
                                             Location_to_string(user.location), message))
                 ELSE unknown

\* &target[0..1] panics: the target has no byte at index 0, the empty string
SliceFirstPanics(target) == target = <<>>

\* private_message on a target that SliceFirstPanics does not stop
Broker_private_message(b, ord, user, target, message) ==
    LET key == to_ascii_lowercase(Tail(target))
        unknown == User_send(b, user.id, ErrorMessage(<<"Unknown target: ">> \o target))
    IN  CASE Head(target) = "#" ->
                 IF key \in DOMAIN b.channels
                 THEN LET to == <<"#">> \o b.channels[key]
                      IN  Users_send_to_location(
                              User_send(b, user.id, SentPrivateMessage(to, message)),
                              ord, ChannelLoc(b.channels[key]),
                              PrivateMessage(user.username, to,
                                             Location_to_string(user.location), message))
                 ELSE unknown
          [] Head(target) = "$" ->
                 IF key \in DOMAIN b.games
                 THEN LET to == <<"$">> \o b.games[key].name
                      IN  Users_send_to_location(
                              User_send(b, user.id, SentPrivateMessage(to, message)),
                              ord, GameLoc(b.games[key].name),
                              PrivateMessage(user.username, to,
                                             Location_to_string(user.location), message))
                 ELSE unknown
          [] OTHER ->
                 IF Users_by_username(b, target) /= {}
                 THEN LET recipient == b.users[CHOOSE i \in Users_by_username(b, target) : TRUE]
                      IN  User_send(
                              User_send(b, user.id,
                                        SentPrivateMessage(recipient.username, message)),
                              recipient.id,
                              PrivateMessage(user.username, recipient.username,
                                             Location_to_string(user.location), message))
                 ELSE unknown

\* host_game that sends the /plays reply to every user
Broker_host_game_announce(b, ord, user, game_name, password_or_guid, fresh) ==
    IF only_allowed_chars_not_empty(game_name, ALLOWED_NAME_CHARS)
         /\ to_ascii_lowercase(game_name) \notin DOMAIN b.games
    THEN Users_send_to_all(
             [b EXCEPT !.games = MapInsert(@, to_ascii_lowercase(game_name),
                 [hosted_by |-> user.id, host_ip |-> user.ip_addr, name |-> game_name,
                  password |-> password_or_guid, status |-> "Requested", id |-> ZeroGuid])],
             ord, CreateGameMessage(game_name, password_or_guid, fresh))
    ELSE b

\* host_game that lets any user confirm or start a game
Broker_host_game_any_host(b, ord, user, game_name, password_or_guid, fresh) ==
    LET key == to_ascii_lowercase(game_name) IN
    IF ~only_allowed_chars_not_empty(game_name, ALLOWED_NAME_CHARS)
    THEN User_send(b, user.id, ErrorMessage(<<"Invalid game name">>))
    ELSE IF key \notin DOMAIN b.games
    THEN LET b1 == User_send(b, user.id, CreateGameMessage(game_name, password_or_guid, fresh))
         IN  [b1 EXCEPT !.games = MapInsert(@, key,
                 [hosted_by |-> user.id, host_ip |-> user.ip_addr, name |-> game_name,
                  password |-> password_or_guid, status |-> "Requested", id |-> ZeroGuid])]
    ELSE LET g == b.games[key] IN
         IF g.status = "Started" \/ ~IsGuidText(password_or_guid)
         THEN User_send(b, user.id, ErrorMessage(<<"Game already exists.">>))
         ELSE IF g.status = "Requested"
         THEN LET b1 == [b EXCEPT !.games[key].id = password_or_guid,
                                  !.games[key].status = "Open"]
                  b2 == Users_send_to_all(b1, ord, NewGameMessage(game_name, password_or_guid))
              IN  Users_update(b2, ord, [user EXCEPT !.location = GameLoc(g.name)])
         ELSE Users_send_to_all([b EXCEPT !.games[key].status = "Started"],
                                ord, DropGameMessage(g.name))

\* host_game whose second confirmation puts the game back to Requested
Broker_host_game_reopen(b, ord, user, game_name, password_or_guid, fresh) ==
    LET key == to_ascii_lowercase(game_name) IN
    IF ~only_allowed_chars_not_empty(game_name, ALLOWED_NAME_CHARS)
    THEN User_send(b, user.id, ErrorMessage(<<"Invalid game name">>))
    ELSE IF key \notin DOMAIN b.games
    THEN LET b1 == User_send(b, user.id, CreateGameMessage(game_name, password_or_guid, fresh))
         IN  [b1 EXCEPT !.games = MapInsert(@, key,
                 [hosted_by |-> user.id, host_ip |-> user.ip_addr, name |-> game_name,
                  password |-> password_or_guid, status |-> "Requested", id |-> ZeroGuid])]
    ELSE LET g == b.games[key] IN
         IF g.status = "Started" \/ g.hosted_by /= user.id \/ ~IsGuidText(password_or_guid)
         THEN User_send(b, user.id, ErrorMessage(<<"Game already exists.">>))
         ELSE IF g.status = "Requested"
         THEN LET b1 == [b EXCEPT !.games[key].id = password_or_guid,
                                  !.games[key].status = "Open"]
                  b2 == Users_send_to_all(b1, ord, NewGameMessage(game_name, password_or_guid))
              IN  Users_update(b2, ord, [user EXCEPT !.location = GameLoc(g.name)])
         ELSE Users_send_to_all([b EXCEPT !.games[key].status = "Requested"],
                                ord, DropGameMessage(g.name))

Broker_host_game(b, ord, user, game_name, password_or_guid, fresh) ==
    LET key == to_ascii_lowercase(game_name) IN
    IF ~only_allowed_chars_not_empty(game_name, ALLOWED_NAME_CHARS)
    THEN User_send(b, user.id, ErrorMessage(<<"Invalid game name">>))
    ELSE IF key \notin DOMAIN b.games
    THEN LET b1 == User_send(b, user.id, CreateGameMessage(game_name, password_or_guid, fresh))
         IN  [b1 EXCEPT !.games = MapInsert(@, key,
                 [hosted_by |-> user.id, host_ip |-> user.ip_addr, name |-> game_name,
                  password |-> password_or_guid, status |-> "Requested", id |-> ZeroGuid])]
    ELSE LET g == b.games[key] IN
         IF g.status = "Started" \/ g.hosted_by /= user.id \/ ~IsGuidText(password_or_guid)
         THEN User_send(b, user.id, ErrorMessage(<<"Game already exists.">>))
         ELSE IF g.status = "Requested"
         THEN LET b1 == [b EXCEPT !.games[key].id = password_or_guid,
                                  !.games[key].status = "Open"]
                  b2 == Users_send_to_all(b1, ord, NewGameMessage(game_name, password_or_guid))
              IN  Users_update(b2, ord, [user EXCEPT !.location = GameLoc(g.name)])
         ELSE Users_send_to_all([b EXCEPT !.games[key].status = "Started"],
                                ord, DropGameMessage(g.name))

Broker_join_game(b, ord, user, game_name, password) ==
    LET key == to_ascii_lowercase(game_name) IN
    IF key \in DOMAIN b.games
    THEN LET game == b.games[key] IN
         IF IsGuidText(password)
         THEN IF password = game.id
              THEN Users_update(b, ord, [user EXCEPT !.location = GameLoc(game.name)])
              ELSE b
         ELSE IF password = game.password
              THEN User_send(b, user.id,
                             JoinGameMessage(game.name, password, game.id, game.host_ip))
              ELSE User_send(b, user.id, ErrorMessage(<<"Invalid password">>))
    ELSE User_send(b, user.id, ErrorMessage(<<"Game does not exist">>))

\* handle_client_command that answers a connection it does not hold
Broker_handle_client_command_answering(b, ord, id, command, fresh) ==
    IF id \notin DOMAIN b.users
    THEN User_send(b, id, ErrorMessage(<<"Not logged in">>))
    ELSE LET user == b.users[id] IN
         CASE command.c = "Send" -> Broker_public_message(b, ord, user, command.name)
           [] command.c = "PrivateMessage" ->
                  Broker_private_message(b, ord, user, command.name, command.pw)
           [] command.c = "Join" -> Broker_join_channel(b, ord, user, command.name)
           [] command.c = "HostGame" ->
                  Broker_host_game(b, ord, user, command.name, command.pw, fresh)
           [] command.c = "JoinGame" -> Broker_join_game(b, ord, user, command.name, command.pw)
           [] command.c = "NoOp" -> b
           [] command.c = "Malformed" -> User_send(b, user.id, ErrorMessage(command.name))
           [] OTHER ->
                  User_send(b, user.id, ErrorMessage(<<"Unknown command: ">> \o command.name))

Broker_handle_client_command(b, ord, id, command, fresh) ==
    IF id \notin DOMAIN b.users
    THEN b
    ELSE LET user == b.users[id] IN
         CASE command.c = "Send" -> Broker_public_message(b, ord, user, command.name)
           [] command.c = "PrivateMessage" ->
                  Broker_private_message(b, ord, user, command.name, command.pw)
           [] command.c = "Join" -> Broker_join_channel(b, ord, user, command.name)
           [] command.c = "HostGame" ->
                  Broker_host_game(b, ord, user, command.name, command.pw, fresh)
           [] command.c = "JoinGame" -> Broker_join_game(b, ord, user, command.name, command.pw)
           [] command.c = "NoOp" -> b
           [] command.c = "Malformed" -> User_send(b, user.id, ErrorMessage(command.name))
           [] OTHER ->
                  User_send(b, user.id, ErrorMessage(<<"Unknown command: ">> \o command.name))

RECURSIVE AnnounceOpenGames(_, _, _)
AnnounceOpenGames(b, id, keys) ==
    IF keys = <<>> THEN b
    ELSE AnnounceOpenGames(
             IF b.games[Head(keys)].status = "Open"
             THEN User_send(b, id, NewGameMessage(b.games[Head(keys)].name,
                                                  b.games[Head(keys)].id))
             ELSE b,
             id, Tail(keys))

\* the Reject a duplicate login is answered with
DuplicateLoginReply(b, id) ==
    User_send(b, id, RejectServerMessage(<<"Already logged in">>))

\* handle_new_user that leaves the new user where insert put it
Broker_handle_new_user_nowhere(b, ord, chOrd, gOrd, id, username, ip_addr) ==
    LET user == [id |-> id, username |-> username, location |-> Nowhere,
                 ip_addr |-> ip_addr] IN
    IF Users_by_username(b, username) /= {}
    THEN DuplicateLoginReply(b, id)
    ELSE LET b1 == User_send(b, id, WelcomeServerMessage)
             b2 == Channels_announce_all(b1, chOrd, id)
             b3 == AnnounceOpenGames(b2, id, gOrd)
         IN  Users_insert(b3, ord, user)

Broker_handle_new_user(b, ord, chOrd, gOrd, id, username, ip_addr) ==
    LET user == [id |-> id, username |-> username, location |-> Nowhere,
                 ip_addr |-> ip_addr] IN
    IF Users_by_username(b, username) /= {}
    THEN DuplicateLoginReply(b, id)
    ELSE LET b1 == User_send(b, id, WelcomeServerMessage)
             b2 == Channels_announce_all(b1, chOrd, id)
             b3 == AnnounceOpenGames(b2, id, gOrd)
             b4 == Users_insert(b3, ord, user)
         IN  Broker_join_channel(b4, ord, b4.users[id], DEFAULT_CHANNEL)

Broker_handle_event(b, event, ord, chOrd, gOrd, fresh) ==
    LET b1 == CASE event.type = "NewUser" ->
                       Broker_handle_new_user(b, ord, chOrd, gOrd, event.id, event.username,
                                              event.ip_addr)
                [] event.type = "Command" ->
                       Broker_handle_client_command(b, ord, event.id, event.command, fresh)
                [] OTHER -> Users_remove(b, ord, event.id)
    IN  Channels_check_remove_empty_channels(b1, ord, chOrd)

(* --------------------------- command lines ---------------------------- *)
\* bytes are one-character strings; the frame terminator is a token of its own
NUL == "NUL"
QUOTE == "\""
SP == " "
HT == "\t"
LF == "\n"
CR == "\r"

\* nom::character::is_alphabetic and the bytes multispace0 / multispace1 take
is_alphabetic(ch) == ch \in Letters
Multispace == {SP, HT, CR, LF}

\* the length of the longest prefix of input whose bytes all satisfy In
PrefixLen(input, In(_)) ==
    LET stop == {i \in 1..Len(input) : ~In(input[i])}
    IN  IF stop = {} THEN Len(input)
        ELSE (CHOOSE i \in stop : \A j \in stop : i <= j) - 1

Take(input, n) == SubSeq(input, 1, n)
Drop(input, n) == SubSeq(input, n + 1, Len(input))

\* the results of a parser: Ok((rest, out)) or Err(Error)
ParseOk(rest, out) == [ok |-> TRUE, rest |-> rest, out |-> out]
ParseErr(input) == [ok |-> FALSE, rest |-> input, out |-> <<>>]

\* preceded(char('/'), take_while(is_alphabetic))
parsers_command(input) ==
    IF input /= <<>> /\ Head(input) = "/"
    THEN LET n == PrefixLen(Tail(input), is_alphabetic)
         IN  ParseOk(Drop(Tail(input), n), Take(Tail(input), n))
    ELSE ParseErr(input)

\* delimited(char('"'), take_till(c == '"'), alt((tag("\""), end_of_input)))
parsers_quoted_param(input) ==
    IF input /= <<>> /\ Head(input) = QUOTE
    THEN LET n == PrefixLen(Tail(input), LAMBDA ch : ch /= QUOTE)
             after == Drop(Tail(input), n)
         IN  ParseOk(IF after = <<>> THEN after ELSE Tail(after), Take(Tail(input), n))
    ELSE ParseErr(input)

\* is_not(" \t\"")
parsers_unquoted_param(input) ==
    LET n == PrefixLen(input, LAMBDA ch : ch \notin {SP, HT, QUOTE})
    IN  IF n = 0 THEN ParseErr(input) ELSE ParseOk(Drop(input, n), Take(input, n))

\* alt((quoted_param, unquoted_param))
parsers_any_param(input) ==
    IF parsers_quoted_param(input).ok
    THEN parsers_quoted_param(input)
    ELSE parsers_unquoted_param(input)

multispace1(input) ==
    LET n == PrefixLen(input, LAMBDA ch : ch \in Multispace)
    IN  IF n = 0 THEN ParseErr(input) ELSE ParseOk(Drop(input, n), <<>>)

multispace0(input) ==
    ParseOk(Drop(input, PrefixLen(input, LAMBDA ch : ch \in Multispace)), <<>>)

\* the loop of separated_list after its first element: a separator and an
\* element are taken together or not at all. Every element consumes a byte,
\* so the loop's no-progress error cannot arise.
RECURSIVE separated_list_loop(_, _)
separated_list_loop(input, res) ==
    LET sep == multispace1(input)
        elem == parsers_any_param(sep.rest)
    IN  IF sep.ok /\ elem.ok
        THEN separated_list_loop(elem.rest, Append(res, elem.out))
        ELSE ParseOk(input, res)

\* separated_list(multispace1, any_param)
parsers_param_list(input) ==
    LET first == parsers_any_param(input)
    IN  IF first.ok THEN separated_list_loop(first.rest, <<first.out>>)
        ELSE ParseOk(input, <<>>)

\* RawCommand, or the error of try_parse_raw_command
RawCommand(verb, params) == [ok |-> TRUE, command |-> verb, params |-> params]
RawError == [ok |-> FALSE, command |-> <<>>, params |-> <<>>]

\* parsers::client_command: the command, opt(preceded(multispace1,
\* param_list)), then tuple((multispace0, end_of_input))
parsers_client_command(input) ==
    LET verb == parsers_command(input)
        sep == multispace1(verb.rest)
        list == IF sep.ok THEN parsers_param_list(sep.rest) ELSE ParseOk(verb.rest, <<>>)
    IN  IF verb.ok /\ multispace0(list.rest).rest = <<>>
        THEN RawCommand(to_ascii_lowercase(verb.out), list.out)
        ELSE RawError

try_parse_raw_command(input) == parsers_client_command(input)

RECURSIVE escape_quotes(_)
escape_quotes(input) ==
    IF input = <<>> THEN <<>>
    ELSE (IF Head(input) = QUOTE THEN <<"%", "2", "2">> ELSE <<Head(input)>>)
           \o escape_quotes(Tail(input))

\* the parameters of prepare_command as it writes them, one after the other
RECURSIVE QuotedParams(_)
QuotedParams(params) ==
    IF params = <<>> THEN <<>>
    ELSE <<SP, QUOTE>> \o escape_quotes(Head(params)) \o <<QUOTE>>
           \o QuotedParams(Tail(params))

\* prepare_command that writes the parameters bare
prepare_command_bare(verb, params) ==
    LET RECURSIVE Bare(_)
        Bare(ps) == IF ps = <<>> THEN <<>> ELSE <<SP>> \o Head(ps) \o Bare(Tail(ps))
    IN  verb \o Bare(params) \o <<NUL>>

prepare_command(verb, params) == verb \o QuotedParams(params) \o <<NUL>>

RECURSIVE concat_params(_)
concat_params(params) ==
    IF params = <<>> THEN <<>>
    ELSE IF Len(params) = 1 THEN Head(params)
    ELSE Head(params) \o <<SP>> \o concat_params(Tail(params))

Malformed(reason) == [c |-> "Malformed", name |-> <<reason>>, pw |-> <<>>]

send_from_raw(raw) ==
    IF raw.params = <<>> THEN Malformed("Missing parameters for /send")
    ELSE [c |-> "Send", name |-> concat_params(raw.params), pw |-> <<>>]

join_from_raw(raw) ==
    IF raw.params = <<>> THEN Malformed("Missing parameters for /join")
    ELSE [c |-> "Join", name |-> concat_params(raw.params), pw |-> <<>>]

hostgame_from_raw(raw) ==
    IF Len(raw.params) < 3 THEN Malformed("Missing parameters for /plays")
    ELSE [c |-> "HostGame", name |-> raw.params[2], pw |-> raw.params[3]]

match_raw_command(raw) ==
    CASE raw.command = <<"s", "e", "n", "d">> -> send_from_raw(raw)
      [] raw.command = <<"j", "o", "i", "n">> -> join_from_raw(raw)
      [] raw.command = <<"p", "l", "a", "y", "s">> -> hostgame_from_raw(raw)
      [] OTHER -> [c |-> "Unknown", name |-> raw.command, pw |-> <<>>]

\* the place of the first NUL of data, 0 when it has none
NulPosition(data) ==
    LET at == {i \in 1..Len(data) : data[i] = NUL}
    IN  IF at = {} THEN 0 ELSE CHOOSE i \in at : \A j \in at : i <= j

\* ClientCommand::try_parse when data holds a NUL: the command of the first
\* frame of data, whose bytes before the NUL are the command line
ClientCommand_of_frame(data) ==
    LET raw == try_parse_raw_command(Take(data, NulPosition(data) - 1))
    IN  IF raw.ok THEN match_raw_command(raw)
        ELSE Malformed("Received message is invalid")

(* ------------------------------- state -------------------------------- *)
VARIABLES
    users,        \* Broker.users.by_id: id -> User
    by_name,      \* Broker.users.by_name: lowercased username -> id
    channels,     \* Broker.channels.by_name: lowercased name -> display name
    games,        \* Broker.games: lowercased name -> Game
    events,       \* the broker's inbound event channel
    cur,          \* the event the broker took last
    evOut,        \* per connection: the messages that event's handler sent to it, in order
    pending,      \* the sends of that handler still to do; non-empty while a send waits
    brokerPc,     \* broker_loop: "running", "exited" or "panicked"
    acceptPc,     \* accept_loop: "running" or "exited"
    shutdown,     \* the value of the watch channel
    hstatus,      \* per connection: client_handler's login_status, or "None"/"Done"
    sub,          \* per connection: the last kind of event submitted, and the DropClients sent
    wstatus,      \* per connection: client_write_loop "None", "running" or "finished"
    outbox,       \* per connection: the outbound message channel
    msgSeq,       \* per connection: messages enqueued so far
    lastWritten,  \* per connection: number of the message written to the socket last
    nframes,      \* frames counted against MaxCommands, MaxGameCommands or MaxFrames
    minted,       \* history: per game key, the GUID sent in the /plays reply that created it
    aged,         \* history: the keys of the games created more than 30 seconds ago
    received,     \* per connection: client_handler's receive buffer
    rpc,          \* per connection: the reader loop is at its "read" or in process_messages
    trip,         \* the command line in hand and what became of it
    inbox         \* per connection: the frames of the last read and how many are processed

vars == <<users, by_name, channels, games, events, cur, evOut, pending, brokerPc, acceptPc,
          shutdown, hstatus, sub, wstatus, outbox, msgSeq, lastWritten, nframes, minted, aged,
          received, rpc, trip, inbox>>

\* the history and the reader's buffer, which the server's tasks other than
\* the broker's handler and the reader leave alone
hist == <<minted, aged, received, rpc, trip, inbox>>

\* nothing has been read
NoBatch == [batch |-> <<>>, done |-> 0]

\* no command line is in hand
NoTrip == [stage |-> "idle", conn |-> 0, line |-> <<>>]

(* --------------------------- client inputs ---------------------------- *)
NoCommand == [c |-> "None", name |-> <<>>, pw |-> <<>>]
LoginNames == {sfoo, sFoo, sbar}
Commands ==
    {[c |-> "Join", name |-> n, pw |-> <<>>] : n \in {sGeneral, sgeneral, sX, sBad}}
      \cup {[c |-> "Send", name |-> sX, pw |-> <<>>]}
      \cup {[c |-> "HostGame", name |-> sX, pw |-> p] : p \in {sSecret, <<"1">>}}
      \cup {[c |-> "JoinGame", name |-> sX, pw |-> p] : p \in {sSecret, <<"1">>, ZeroGuid}}
      \cup {[c |-> "PrivateMessage", name |-> t, pw |-> sX] : t \in {<<"#", "x">>, sFoo}}
      \cup {[c |-> k, name |-> sX, pw |-> <<>>] : k \in {"NoOp", "Malformed", "Unknown"}}
\* the inputs of the runs with the game commands
GameLoginNames == {sfoo, sbar}
GameCommands ==
    {[c |-> "HostGame", name |-> sX, pw |-> p] : p \in {sSecret} \cup Guids}
      \cup {[c |-> "JoinGame", name |-> sX, pw |-> p] :
                p \in {sSecret, sX, ZeroGuid} \cup Guids}
\* the inputs of the runs of the whole server
SysLoginNames == {sfoo, sBad}
SysCommands == {[c |-> "Join", name |-> sX, pw |-> <<>>]}

\* stream.peer_addr() of connection c
PeerAddr(c) == <<"addr", c>>

Event(type, id, username, command) ==
    [type |-> type, id |-> id, username |-> username, ip_addr |-> PeerAddr(id),
     command |-> command, ticket |-> 0]

\* a receive buffer: the number of NUL bytes in it and the number of bytes
\* after the last NUL (all its bytes when it holds no NUL)
EmptyBuffer == [frames |-> 0, tail |-> 0]

(* ------------------------------- Init --------------------------------- *)
\* the server after construction
ServerInit ==
    /\ users = EmptyMap
    /\ by_name = EmptyMap
    /\ channels = EmptyMap
    /\ games = EmptyMap
    /\ events = <<>>
    /\ cur = Event("None", 0, <<>>, NoCommand)
    /\ evOut = [c \in Conn |-> <<>>]
    /\ pending = <<>>
    /\ brokerPc = "running"
    /\ acceptPc = "running"
    /\ shutdown = FALSE
    /\ hstatus = [c \in Conn |-> "None"]
    /\ sub = [c \in Conn |-> [last |-> "none", drops |-> 0]]
    /\ wstatus = [c \in Conn |-> "None"]
    /\ outbox = [c \in Conn |-> <<>>]
    /\ msgSeq = [c \in Conn |-> 0]
    /\ lastWritten = [c \in Conn |-> 0]
    /\ nframes = 0
    /\ minted = EmptyMap
    /\ aged = {}
    /\ received = [c \in Conn |-> EmptyBuffer]
    /\ rpc = [c \in Conn |-> "read"]
    /\ inbox = [c \in Conn |-> NoBatch]

Init == ServerInit /\ trip = NoTrip

(* ----------------------- the broker on its own ------------------------ *)
\* the messages among the handler's sends that go to connection c
OutFor(out, c) ==
    LET mine == SelectSeq(out, LAMBDA e : e[1] = c)
    IN  [i \in 1..Len(mine) |-> mine[i][2]]

\* Uuid::new_v4(): drawn only by a plays command for a name that has no game
FreshGuids(event) ==
    IF event.command.c = "HostGame"
         /\ to_ascii_lowercase(event.command.name) \notin DOMAIN games
    THEN Guids ELSE {ZeroGuid}

\* the orders in which by_id can be iterated while the event is handled: its
\* entries are the live users and, for a NewUser, the user the event inserts
UserOrders(event) == Perms(DOMAIN users \cup {event.id})

\* the orders in which the channel map can be iterated while the event is
\* handled: its entries are the channels and the one the event can create
ChannelOrders(event) ==
    Perms(DOMAIN channels
            \cup (IF event.type = "NewUser" THEN {to_ascii_lowercase(DEFAULT_CHANNEL)}
                  ELSE IF event.command.c = "Join"
                  THEN {to_ascii_lowercase(event.command.name)} ELSE {}))

\* the history of the games: a game that the event created was sent fresh in
\* its /plays reply and is new; a game that the event removed is forgotten
Minted(games2, fresh) ==
    /\ minted' = [k \in DOMAIN games2 |->
                    IF k \in DOMAIN games THEN minted[k] ELSE fresh]
    /\ aged' = aged \cap (DOMAIN games \cap DOMAIN games2)
    /\ UNCHANGED <<received, rpc, inbox>>

\* handle_event on one event, housekeeping included; the handler's sends are
\* kept in evOut
Handle(event) ==
    \E ord \in UserOrders(event), chOrd \in ChannelOrders(event),
       gOrd \in Perms(DOMAIN games), fresh \in FreshGuids(event) :
       LET b == Broker_handle_event(
                    [users |-> users, by_name |-> by_name, channels |-> channels,
                     games |-> games, out |-> <<>>],
                    event, ord, chOrd, gOrd, fresh)
       IN  /\ cur' = event
           /\ users' = b.users
           /\ by_name' = b.by_name
           /\ channels' = b.channels
           /\ games' = b.games
           /\ evOut' = [c \in Conn |-> OutFor(b.out, c)]
           /\ Minted(b.games, fresh)

\* Event::NewUser of a connection that has not logged in yet
NewUser(c, username) ==
    /\ hstatus[c] = "None"
    /\ \A d \in Conn : d < c => hstatus[d] /= "None"
    /\ Handle(Event("NewUser", c, username, NoCommand))
    /\ hstatus' = [hstatus EXCEPT ![c] = "LoggedIn"]
    /\ UNCHANGED <<events, pending, brokerPc, acceptPc, shutdown, sub, wstatus, outbox,
                   msgSeq, lastWritten, nframes, trip>>

\* Event::Command of a connection in its command phase
Command(c, command) ==
    /\ hstatus[c] = "LoggedIn"
    /\ nframes < MaxCommands
    /\ Handle(Event("Command", c, <<>>, command))
    /\ nframes' = nframes + 1
    /\ UNCHANGED <<events, pending, brokerPc, acceptPc, shutdown, hstatus, sub, wstatus,
                   outbox, msgSeq, lastWritten, trip>>

\* Event::DropClient, the last event of a connection
DropClient(c) ==
    /\ hstatus[c] = "LoggedIn"
    /\ Handle(Event("DropClient", c, <<>>, NoCommand))
    /\ hstatus' = [hstatus EXCEPT ![c] = "Done"]
    /\ UNCHANGED <<events, pending, brokerPc, acceptPc, shutdown, sub, wstatus, outbox,
                   msgSeq, lastWritten, nframes, trip>>

Next ==
    \/ \E c \in Conn, username \in LoginNames : NewUser(c, username)
    \/ \E c \in Conn, command \in Commands : Command(c, command)
    \/ \E c \in Conn : DropClient(c)

Spec == Init /\ [][Next]_vars

(* ------------------- the broker and the game commands ----------------- *)
\* Event::Command of a connection in its command phase, carrying plays or playc
GameCommand(c, command) ==
    /\ hstatus[c] = "LoggedIn"
    /\ nframes < MaxGameCommands
    /\ Handle(Event("Command", c, <<>>, command))
    /\ nframes' = nframes + 1
    /\ UNCHANGED <<events, pending, brokerPc, acceptPc, shutdown, hstatus, sub, wstatus,
                   outbox, msgSeq, lastWritten, trip>>

\* more than 30 seconds pass: every game in the map is now older than that
Elapse ==
    /\ aged /= DOMAIN games
    /\ aged' = DOMAIN games
    /\ UNCHANGED <<users, by_name, channels, games, events, cur, evOut, pending, brokerPc,
                   acceptPc, shutdown, hstatus, sub, wstatus, outbox, msgSeq, lastWritten,
                   nframes, minted, received, rpc, trip, inbox>>

GameNext ==
    \/ \E c \in Conn, username \in GameLoginNames : NewUser(c, username)
    \/ \E c \in Conn, command \in GameCommands : GameCommand(c, command)
    \/ \E c \in Conn : DropClient(c)
    \/ Elapse

GameSpec == Init /\ [][GameNext]_vars

\* time passes
FairGameSpec == GameSpec /\ WF_vars(Elapse)

(* ------------------ the broker under private messages ----------------- *)
\* the inputs of the runs with private messages
MsgLoginNames == {sfoo, sbar}
MsgCommands ==
    {[c |-> "PrivateMessage", name |-> t, pw |-> sX] :
         t \in {<<>>, sFoo, <<"#">> \o sX, <<"$">> \o sX}}
      \cup {[c |-> "Join", name |-> sX, pw |-> <<>>]}

\* Event::Command taken by broker_loop: a panic inside handle_event unwinds
\* the broker task, which takes no event afterwards
MsgCommand(c, command) ==
    /\ brokerPc = "running"
    /\ hstatus[c] = "LoggedIn"
    /\ nframes < MaxCommands
    /\ IF c \in DOMAIN users /\ command.c = "PrivateMessage" /\ SliceFirstPanics(command.name)
       THEN /\ brokerPc' = "panicked"
            /\ cur' = Event("Command", c, <<>>, command)
            /\ evOut' = [d \in Conn |-> <<>>]
            /\ UNCHANGED <<users, by_name, channels, games, minted, aged, received, rpc,
                           inbox>>
       ELSE /\ Handle(Event("Command", c, <<>>, command))
            /\ UNCHANGED brokerPc
    /\ nframes' = nframes + 1
    /\ UNCHANGED <<events, pending, acceptPc, shutdown, hstatus, sub, wstatus, outbox,
                   msgSeq, lastWritten, trip>>

MsgNext ==
    \/ \E c \in Conn, username \in MsgLoginNames : brokerPc = "running" /\ NewUser(c, username)
    \/ \E c \in Conn, command \in MsgCommands : MsgCommand(c, command)
    \/ \E c \in Conn : brokerPc = "running" /\ DropClient(c)

MsgSpec == Init /\ [][MsgNext]_vars

(* ------------------ the broker under command lines ------------------- *)
\* the command lines of the runs with frames: the empty line, lines of the
\* three verbs of match_raw_command, an unknown verb and a line with no slash
LineInputs ==
    {<<>>,
     <<"/", "j", "o", "i", "n", SP>> \o sX,
     <<"/", "J", "O", "I", "N", SP, QUOTE>> \o sX \o <<QUOTE>>,
     <<"/", "j", "o", "i", "n">>,
     <<"/", "s", "e", "n", "d", SP>> \o sX \o <<SP>> \o sX,
     <<"/", "x">>,
     sX}

\* process_commands on one whole frame, line and its NUL, and handle_event on
\* the Event::Command it submits
LineCommand(c, line) ==
    /\ hstatus[c] = "LoggedIn"
    /\ nframes < MaxCommands
    /\ Handle(Event("Command", c, <<>>, ClientCommand_of_frame(line \o <<NUL>>)))
    /\ nframes' = nframes + 1
    /\ trip' = [stage |-> "submitted", conn |-> c, line |-> line]
    /\ UNCHANGED <<events, pending, brokerPc, acceptPc, shutdown, hstatus, sub, wstatus,
                   outbox, msgSeq, lastWritten>>

LineNext ==
    \/ \E c \in Conn, username \in MsgLoginNames : NewUser(c, username)
    \/ \E c \in Conn, line \in LineInputs : LineCommand(c, line)
    \/ \E c \in Conn : DropClient(c)

LineSpec == Init /\ [][LineNext]_vars

(* ---------------- a command line parsed, rendered, parsed ------------- *)
MaxLineLen == 7
LineBytes == {"/", "B", SP, LF, QUOTE}
Lines == UNION {[1..n -> LineBytes] : n \in 0..MaxLineLen}

ParseInit ==
    /\ ServerInit
    /\ trip \in {[stage |-> "line", conn |-> 0, line |-> line] : line \in Lines}

\* try_parse_raw_command on the line
Parse ==
    /\ trip.stage = "line"
    /\ trip' = [stage |-> "parsed", conn |-> 0, line |-> trip.line,
                first |-> try_parse_raw_command(trip.line)]
    /\ UNCHANGED <<users, by_name, channels, games, events, cur, evOut, pending, brokerPc,
                   acceptPc, shutdown, hstatus, sub, wstatus, outbox, msgSeq, lastWritten,
                   nframes, minted, aged, received, rpc, inbox>>

\* prepare_command on the verb, written after its slash, and the parameters
Render ==
    /\ trip.stage = "parsed"
    /\ trip.first.ok
    /\ trip' = [stage |-> "rendered", conn |-> 0, line |-> trip.line, first |-> trip.first,
                wire |-> prepare_command(<<"/">> \o trip.first.command, trip.first.params)]
    /\ UNCHANGED <<users, by_name, channels, games, events, cur, evOut, pending, brokerPc,
                   acceptPc, shutdown, hstatus, sub, wstatus, outbox, msgSeq, lastWritten,
                   nframes, minted, aged, received, rpc, inbox>>

\* try_parse_raw_command on the bytes of the rendered frame before its NUL
Reparse ==
    /\ trip.stage = "rendered"
    /\ trip' = [stage |-> "reparsed", conn |-> 0, line |-> trip.line, first |-> trip.first,
                wire |-> trip.wire,
                second |-> try_parse_raw_command(
                               Take(trip.wire, NulPosition(trip.wire) - 1))]
    /\ UNCHANGED <<users, by_name, channels, games, events, cur, evOut, pending, brokerPc,
                   acceptPc, shutdown, hstatus, sub, wstatus, outbox, msgSeq, lastWritten,
                   nframes, minted, aged, received, rpc, inbox>>

ParseNext == Parse \/ Render \/ Reparse

ParseSpec == ParseInit /\ [][ParseNext]_vars

\* the handler keeps a sender of its own after login
SenderAlive_kept(c) ==
    \/ hstatus[c] \in {"Connected", "Greeted", "LoggedIn"}
    \/ /\ brokerPc = "running"
       /\ \/ c \in DOMAIN users
          \/ \E n \in 1..Len(events) : events[n].type = "NewUser" /\ events[n].id = c
          \/ pending /= <<>> /\ cur.type = "NewUser" /\ cur.id = c

(* ------------------------ the channels' ends -------------------------- *)
\* some MessageSender of connection c's outbound channel is alive: the
\* handler's before login, the one travelling in a queued NewUser event, the
\* local User of a handle_new_user still sending, the broker's copy in users
SenderAlive(c) ==
    \/ hstatus[c] \in {"Connected", "Greeted"}
    \/ /\ brokerPc = "running"
       /\ \/ c \in DOMAIN users
          \/ \E n \in 1..Len(events) : events[n].type = "NewUser" /\ events[n].id = c
          \/ pending /= <<>> /\ cur.type = "NewUser" /\ cur.id = c

\* every EventSender is dropped: accept_loop's and each client_handler's clone
EventsClosed ==
    /\ acceptPc /= "running"
    /\ \A c \in Conn : hstatus[c] \in {"None", "Failed", "Done"}

\* events.next() and messages.next(): the oldest element of the channel
RecvMessage(q) == [msg |-> Head(q), rest |-> Tail(q)]
\* a receive that takes the youngest element
RecvEvent_lifo(q) == [ev |-> q[Len(q)], rest |-> SubSeq(q, 1, Len(q) - 1)]
RecvEvent(q) == [ev |-> Head(q), rest |-> Tail(q)]

RECURSIVE Deliver(_, _, _)
\* self.send.send(message).await for each of the sends in turn: an error when
\* the receiver is gone (logged, ignored), the message enqueued when the
\* channel has room, and otherwise the send waits: rest is what is left to do
Deliver(ob, sq, sends) ==
    IF sends = <<>> THEN [outbox |-> ob, msgSeq |-> sq, rest |-> <<>>]
    ELSE LET to == Head(sends)[1]
             m == Head(sends)[2]
         IN  IF wstatus[to] /= "running"
             THEN Deliver(ob, sq, Tail(sends))
             ELSE IF Len(ob[to]) < OutboxCap
             THEN Deliver([ob EXCEPT ![to] = Append(@, [n |-> sq[to] + 1, m |-> m])],
                          [sq EXCEPT ![to] = @ + 1], Tail(sends))
             ELSE [outbox |-> ob, msgSeq |-> sq, rest |-> sends]

\* the event as it sits in the inbound channel, numbered in enqueueing order
Submitted(ev) == [ev EXCEPT !.ticket = cur.ticket + Len(events) + 1]

(* --------------------------- broker_loop ------------------------------ *)
\* Some(event) = events.next(): handle_event, up to its first send that waits
BrokerHandle ==
    /\ brokerPc = "running"
    /\ pending = <<>>
    /\ events /= <<>>
    /\ \E ord \in UserOrders(RecvEvent(events).ev),
          chOrd \in ChannelOrders(RecvEvent(events).ev),
          gOrd \in Perms(DOMAIN games), fresh \in FreshGuids(RecvEvent(events).ev) :
          LET event == RecvEvent(events).ev
              b == Broker_handle_event(
                       [users |-> users, by_name |-> by_name, channels |-> channels,
                        games |-> games, out |-> <<>>],
                       event, ord, chOrd, gOrd, fresh)
              d == Deliver(outbox, msgSeq, b.out)
          IN  /\ cur' = event
              /\ events' = RecvEvent(events).rest
              /\ users' = b.users
              /\ by_name' = b.by_name
              /\ channels' = b.channels
              /\ games' = b.games
              /\ evOut' = [c \in Conn |-> OutFor(b.out, c)]
              /\ Minted(b.games, fresh)
              /\ outbox' = d.outbox
              /\ msgSeq' = d.msgSeq
              /\ pending' = d.rest
    /\ UNCHANGED <<brokerPc, acceptPc, shutdown, hstatus, sub, wstatus, lastWritten,
                   nframes, trip>>

\* the send the handler waits in completes: room was made, or the receiver went
BrokerResume ==
    /\ brokerPc = "running"
    /\ pending /= <<>>
    /\ LET d == Deliver(outbox, msgSeq, pending)
       IN  /\ d.rest /= pending
           /\ outbox' = d.outbox
           /\ msgSeq' = d.msgSeq
           /\ pending' = d.rest
    /\ UNCHANGED <<users, by_name, channels, games, events, cur, evOut, brokerPc, acceptPc,
                   shutdown, hstatus, sub, wstatus, lastWritten, nframes>>
    /\ UNCHANGED hist

\* Some(shutdown) = shutdown_recv.recv() with shutdown true: break. The
\* receiver and the Broker are dropped, and the queued events with them.
BrokerShutdown ==
    /\ brokerPc = "running"
    /\ pending = <<>>
    /\ shutdown
    /\ brokerPc' = "exited"
    /\ events' = <<>>
    /\ UNCHANGED <<users, by_name, channels, games, cur, evOut, pending, acceptPc, shutdown,
                   hstatus, sub, wstatus, outbox, msgSeq, lastWritten, nframes>>
    /\ UNCHANGED hist

(* ------------------------------ server -------------------------------- *)
\* shutdown_send.broadcast(true) in run, after a signal or after one of the
\* two loops has ended
SetShutdown ==
    /\ ~shutdown
    /\ shutdown' = TRUE
    /\ UNCHANGED <<users, by_name, channels, games, events, cur, evOut, pending, brokerPc,
                   acceptPc, hstatus, sub, wstatus, outbox, msgSeq, lastWritten, nframes>>
    /\ UNCHANGED hist

\* accept_loop takes a connection and spawns client_handler, which spawns
\* client_write_loop unless the peer address is not IPv4
Accept(c, ipv4) ==
    /\ acceptPc = "running"
    /\ c <= SysConns
    /\ hstatus[c] = "None"
    /\ \A d \in Conn : d < c => hstatus[d] /= "None"
    /\ hstatus' = [hstatus EXCEPT ![c] = IF ipv4 THEN "Connected" ELSE "Failed"]
    /\ wstatus' = [wstatus EXCEPT ![c] = IF ipv4 THEN "running" ELSE "None"]
    /\ UNCHANGED <<users, by_name, channels, games, events, cur, evOut, pending, brokerPc,
                   acceptPc, shutdown, sub, outbox, msgSeq, lastWritten, nframes>>
    /\ UNCHANGED hist

\* Some(shutdown) = shutdown_recv.recv() with shutdown true: break
AcceptShutdown ==
    /\ acceptPc = "running"
    /\ shutdown
    /\ acceptPc' = "exited"
    /\ UNCHANGED <<users, by_name, channels, games, events, cur, evOut, pending, brokerPc,
                   shutdown, hstatus, sub, wstatus, outbox, msgSeq, lastWritten, nframes>>
    /\ UNCHANGED hist

\* connection? on a failed accept: accept_loop returns the error
AcceptError ==
    /\ acceptPc = "running"
    /\ acceptPc' = "exited"
    /\ UNCHANGED <<users, by_name, channels, games, events, cur, evOut, pending, brokerPc,
                   shutdown, hstatus, sub, wstatus, outbox, msgSeq, lastWritten, nframes>>
    /\ UNCHANGED hist

(* -------------------------- client_handler ---------------------------- *)
\* send.send(msg).await? of the handler itself: the message is enqueued and
\* the handler goes on as next; when the writer is gone the error ends the
\* reader loop. The send waits while the channel is full.
Reply(c, msg, next) ==
    /\ wstatus[c] /= "running" \/ Len(outbox[c]) < OutboxCap
    /\ IF wstatus[c] = "running"
       THEN /\ outbox' = [outbox EXCEPT ![c] = Append(@, [n |-> msgSeq[c] + 1, m |-> msg])]
            /\ msgSeq' = [msgSeq EXCEPT ![c] = @ + 1]
            /\ hstatus' = [hstatus EXCEPT ![c] = next]
       ELSE /\ hstatus' = [hstatus EXCEPT ![c] = "Stopping"]
            /\ UNCHANGED <<outbox, msgSeq>>

\* broker.send(event).await?: the event is enqueued and the handler goes on
\* as next; when broker_loop has ended the error ends the reader loop. The
\* send waits while the channel is full.
Submit(c, ev, next) ==
    /\ brokerPc /= "running" \/ Len(events) < EventsCap
    /\ sub' = [sub EXCEPT ![c] = [last |-> ev.type,
                                  drops |-> @.drops + IF ev.type = "DropClient" THEN 1 ELSE 0]]
    /\ IF brokerPc = "running"
       THEN /\ events' = Append(events, Submitted(ev))
            /\ hstatus' = [hstatus EXCEPT ![c] = next]
       ELSE /\ hstatus' = [hstatus EXCEPT ![c] = IF next = "Done" THEN "Done" ELSE "Stopping"]
            /\ UNCHANGED events

\* process_ident that ends the reader loop after a Reject
ClientIdent_closing(c, allowed) ==
    /\ hstatus[c] = "Connected"
    /\ allowed \/ nframes < MaxFrames
    /\ IF allowed
       THEN Reply(c, IdentServerMessage, "Greeted")
       ELSE Reply(c, RejectServerMessage(<<"Wrong game version. Please install version 2.2">>),
                  "Stopping")
    /\ nframes' = IF allowed THEN nframes ELSE nframes + 1
    /\ UNCHANGED <<users, by_name, channels, games, events, cur, evOut, pending, brokerPc,
                   acceptPc, shutdown, sub, wstatus, lastWritten>>
    /\ UNCHANGED hist

\* process_ident on a complete Ident frame
ClientIdent(c, allowed) ==
    /\ hstatus[c] = "Connected"
    /\ allowed \/ nframes < MaxFrames
    /\ IF allowed
       THEN Reply(c, IdentServerMessage, "Greeted")
       ELSE Reply(c, RejectServerMessage(<<"Wrong game version. Please install version 2.2">>),
                  "Connected")
    /\ nframes' = IF allowed THEN nframes ELSE nframes + 1
    /\ UNCHANGED <<users, by_name, channels, games, events, cur, evOut, pending, brokerPc,
                   acceptPc, shutdown, sub, wstatus, lastWritten>>
    /\ UNCHANGED hist

\* process_login on a complete Login frame
ClientLogin(c, username) ==
    /\ hstatus[c] = "Greeted"
    /\ IF only_allowed_chars_not_empty(username, ALLOWED_USERNAME_CHARS)
       THEN /\ Submit(c, Event("NewUser", c, username, NoCommand), "LoggedIn")
            /\ UNCHANGED <<outbox, msgSeq, nframes>>
       ELSE /\ nframes < MaxFrames
            /\ Reply(c, RejectServerMessage(<<"translateInvalidCharactersInName">>), "Greeted")
            /\ nframes' = nframes + 1
            /\ UNCHANGED <<events, sub>>
    /\ UNCHANGED <<users, by_name, channels, games, cur, evOut, pending, brokerPc, acceptPc,
                   shutdown, wstatus, lastWritten>>
    /\ UNCHANGED hist

\* process_commands on a complete command frame
ClientCommand(c, command) ==
    /\ hstatus[c] = "LoggedIn"
    /\ nframes < MaxFrames
    /\ Submit(c, Event("Command", c, <<>>, command), "LoggedIn")
    /\ nframes' = nframes + 1
    /\ UNCHANGED <<users, by_name, channels, games, cur, evOut, pending, brokerPc, acceptPc,
                   shutdown, wstatus, outbox, msgSeq, lastWritten>>
    /\ UNCHANGED hist

\* a reader that ends without the DropClient
ReaderStop_silent(c) ==
    /\ hstatus[c] \in {"Connected", "Greeted", "LoggedIn"}
    /\ hstatus' = [hstatus EXCEPT ![c] = "Done"]
    /\ UNCHANGED <<users, by_name, channels, games, events, cur, evOut, pending, brokerPc,
                   acceptPc, shutdown, sub, wstatus, outbox, msgSeq, lastWritten, nframes>>
    /\ UNCHANGED hist

\* read_from_client returns false (the peer closed, or a read error), or
\* process_messages returns a parse error: the reader loop breaks
ReaderStop(c) ==
    /\ hstatus[c] \in {"Connected", "Greeted", "LoggedIn"}
    /\ hstatus' = [hstatus EXCEPT ![c] = "Stopping"]
    /\ UNCHANGED <<users, by_name, channels, games, events, cur, evOut, pending, brokerPc,
                   acceptPc, shutdown, sub, wstatus, outbox, msgSeq, lastWritten, nframes>>
    /\ UNCHANGED hist

\* write_shutdown_recv.recv() returns: the writer task has ended
WriterStopped(c) ==
    /\ hstatus[c] \in {"Connected", "Greeted", "LoggedIn"}
    /\ wstatus[c] = "finished"
    /\ hstatus' = [hstatus EXCEPT ![c] = "Stopping"]
    /\ UNCHANGED <<users, by_name, channels, games, events, cur, evOut, pending, brokerPc,
                   acceptPc, shutdown, sub, wstatus, outbox, msgSeq, lastWritten, nframes>>
    /\ UNCHANGED hist

\* broker.send(Event::DropClient { id: client_id }).await? after the loop
SubmitDrop(c) ==
    /\ hstatus[c] = "Stopping"
    /\ Submit(c, Event("DropClient", c, <<>>, NoCommand), "Done")
    /\ UNCHANGED <<users, by_name, channels, games, cur, evOut, pending, brokerPc, acceptPc,
                   shutdown, wstatus, outbox, msgSeq, lastWritten, nframes>>
    /\ UNCHANGED hist

(* ------------------------- client_write_loop -------------------------- *)
\* Some(msg) = messages.next(), and send_message wrote it to the socket
WriterWrite(c) ==
    /\ wstatus[c] = "running"
    /\ outbox[c] /= <<>>
    /\ lastWritten' = [lastWritten EXCEPT ![c] = RecvMessage(outbox[c]).msg.n]
    /\ outbox' = [outbox EXCEPT ![c] = RecvMessage(outbox[c]).rest]
    /\ UNCHANGED <<users, by_name, channels, games, events, cur, evOut, pending, brokerPc,
                   acceptPc, shutdown, hstatus, sub, wstatus, msgSeq, nframes>>
    /\ UNCHANGED hist

\* send_message failed: the loop returns the error, the receiver is dropped
WriterError(c) ==
    /\ wstatus[c] = "running"
    /\ outbox[c] /= <<>>
    /\ wstatus' = [wstatus EXCEPT ![c] = "finished"]
    /\ outbox' = [outbox EXCEPT ![c] = <<>>]
    /\ UNCHANGED <<users, by_name, channels, games, events, cur, evOut, pending, brokerPc,
                   acceptPc, shutdown, hstatus, sub, msgSeq, lastWritten, nframes>>
    /\ UNCHANGED hist

\* messages.next() returns None: the channel is empty and every sender dropped
WriterEnd(c) ==
    /\ wstatus[c] = "running"
    /\ outbox[c] = <<>>
    /\ ~SenderAlive(c)
    /\ wstatus' = [wstatus EXCEPT ![c] = "finished"]
    /\ UNCHANGED <<users, by_name, channels, games, events, cur, evOut, pending, brokerPc,
                   acceptPc, shutdown, hstatus, sub, outbox, msgSeq, lastWritten, nframes>>
    /\ UNCHANGED hist

SysNext ==
    \/ SetShutdown
    \/ \E c \in Conn, ipv4 \in BOOLEAN : Accept(c, ipv4)
    \/ AcceptShutdown
    \/ AcceptError
    \/ \E c \in Conn, allowed \in BOOLEAN : ClientIdent(c, allowed)
    \/ \E c \in Conn, username \in SysLoginNames : ClientLogin(c, username)
    \/ \E c \in Conn, command \in SysCommands : ClientCommand(c, command)
    \/ \E c \in Conn : ReaderStop(c)
    \/ \E c \in Conn : WriterStopped(c)
    \/ \E c \in Conn : SubmitDrop(c)
    \/ \E c \in Conn : WriterWrite(c)
    \/ \E c \in Conn : WriterError(c)
    \/ \E c \in Conn : WriterEnd(c)
    \/ BrokerHandle
    \/ BrokerResume
    \/ BrokerShutdown

SysSpec == Init /\ [][SysNext]_vars

\* the tasks of the server are scheduled, and a select! whose branches are
\* ready again and again takes each of them; nothing makes a peer send a
\* frame, close its connection or read what the writer sends it
FairSpec ==
    /\ SysSpec
    /\ WF_vars(BrokerHandle)
    /\ WF_vars(BrokerResume)
    /\ SF_vars(BrokerShutdown)
    /\ WF_vars(AcceptShutdown)
    /\ \A c \in Conn : WF_vars(WriterEnd(c))
    /\ \A c \in Conn : WF_vars(WriterStopped(c))
    /\ \A c \in Conn : WF_vars(SubmitDrop(c))

(* ------------------- two logins with one username --------------------- *)
\* the connections identify and log in with the same username and send
\* nothing more; the client that is logged in may close, the others stay
DupNext ==
    \/ \E c \in Conn : Accept(c, TRUE)
    \/ \E c \in Conn : ClientIdent(c, TRUE)
    \/ \E c \in Conn : ClientLogin(c, sfoo)
    \/ \E c \in Conn : c \in DOMAIN users /\ ReaderStop(c)
    \/ \E c \in Conn : WriterStopped(c)
    \/ \E c \in Conn : SubmitDrop(c)
    \/ \E c \in Conn : WriterWrite(c)
    \/ \E c \in Conn : WriterEnd(c)
    \/ BrokerHandle
    \/ BrokerResume

DupSpec == Init /\ [][DupNext]_vars

\* the tasks of the server are scheduled and the socket takes the few short
\* frames a writer has for it; nothing makes a peer send a frame or close
FairDupSpec ==
    /\ DupSpec
    /\ WF_vars(BrokerHandle)
    /\ WF_vars(BrokerResume)
    /\ \A c \in Conn : WF_vars(WriterWrite(c))
    /\ \A c \in Conn : WF_vars(WriterEnd(c))
    /\ \A c \in Conn : WF_vars(WriterStopped(c))
    /\ \A c \in Conn : WF_vars(SubmitDrop(c))

(* ------------------ the reader and its receive buffer ----------------- *)
\* what one read of the socket can return: a full read_buf without a NUL, one
\* byte that is not a NUL, the NUL that ends a message, or a NUL and the first
\* byte of the next message
ReadChunks ==
    {[frames |-> 0, tail |-> ReadBufLen], [frames |-> 0, tail |-> 1],
     [frames |-> 1, tail |-> 0], [frames |-> 1, tail |-> 1]}

\* received.extend_from_slice(&read_buf[..num_read])
Extend(buffer, chunk) ==
    [frames |-> buffer.frames + chunk.frames,
     tail |-> IF chunk.frames > 0 THEN chunk.tail ELSE buffer.tail + chunk.tail]

\* try_parse that never finds a message too long
ClientCommand_try_parse_unlimited(buffer) ==
    IF buffer.frames > 0
    THEN [result |-> "Some", data |-> [buffer EXCEPT !.frames = @ - 1]]
    ELSE [result |-> "None", data |-> buffer]

\* ClientCommand::try_parse: the message up to the first NUL is drained and
\* parsed; without a NUL the buffer is left as it is, and more than
\* MaxMessageLen bytes are an error
ClientCommand_try_parse(buffer) ==
    IF buffer.frames > 0
    THEN [result |-> "Some", data |-> [buffer EXCEPT !.frames = @ - 1]]
    ELSE IF buffer.tail > MaxMessageLen
    THEN [result |-> "Err", data |-> buffer]
    ELSE [result |-> "None", data |-> buffer]

\* read_from_client of a logged-in connection returns true with the bytes of
\* chunk appended; process_messages runs next
ReadFromClient(c, chunk) ==
    /\ hstatus[c] = "LoggedIn"
    /\ rpc[c] = "read"
    /\ nframes < MaxReads
    /\ nframes' = nframes + 1
    /\ received' = [received EXCEPT ![c] = Extend(@, chunk)]
    /\ rpc' = [rpc EXCEPT ![c] = "process"]
    /\ UNCHANGED <<users, by_name, channels, games, events, cur, evOut, pending, brokerPc,
                   acceptPc, shutdown, hstatus, sub, wstatus, outbox, msgSeq, lastWritten,
                   minted, aged, trip, inbox>>

\* read_from_client returns false: the peer closed the connection
ReadClosed(c) ==
    /\ hstatus[c] = "LoggedIn"
    /\ rpc[c] = "read"
    /\ hstatus' = [hstatus EXCEPT ![c] = "Stopping"]
    /\ UNCHANGED <<users, by_name, channels, games, events, cur, evOut, pending, brokerPc,
                   acceptPc, shutdown, sub, wstatus, outbox, msgSeq, lastWritten, nframes>>
    /\ UNCHANGED hist

\* one turn of process_messages' loop in the LoggedIn phase: process_commands
\* submits the command try_parse returned, or nothing was consumed and the
\* loop ends, or the error ends the reader loop
ProcessCommands(c, command) ==
    /\ hstatus[c] = "LoggedIn"
    /\ rpc[c] = "process"
    /\ LET parsed == ClientCommand_try_parse(received[c])
       IN  CASE parsed.result = "Some" ->
                  /\ Submit(c, Event("Command", c, <<>>, command), "LoggedIn")
                  /\ received' = [received EXCEPT ![c] = parsed.data]
                  /\ rpc' = [rpc EXCEPT ![c] =
                               IF parsed.data = EmptyBuffer THEN "read" ELSE "process"]
             [] parsed.result = "None" ->
                  /\ rpc' = [rpc EXCEPT ![c] = "read"]
                  /\ UNCHANGED <<events, sub, hstatus, received>>
             [] OTHER ->
                  /\ hstatus' = [hstatus EXCEPT ![c] = "Stopping"]
                  /\ UNCHANGED <<events, sub, received, rpc>>
    /\ UNCHANGED <<users, by_name, channels, games, cur, evOut, pending, brokerPc, acceptPc,
                   shutdown, wstatus, outbox, msgSeq, lastWritten, nframes, minted, aged,
                   trip, inbox>>

\* one connection that identifies, logs in and then sends bytes, served by
\* the broker and by its writer
ReadNext ==
    \/ Accept(1, TRUE)
    \/ ClientIdent(1, TRUE)
    \/ ClientLogin(1, sfoo)
    \/ \E chunk \in ReadChunks : ReadFromClient(1, chunk)
    \/ ReadClosed(1)
    \/ \E command \in SysCommands : ProcessCommands(1, command)
    \/ SubmitDrop(1)
    \/ WriterWrite(1)
    \/ BrokerHandle
    \/ BrokerResume

ReadSpec == Init /\ [][ReadNext]_vars

(* ---------------- the reader on frames read together ------------------ *)
MaxBatch == 3
MaxBatchFrames == 5

\* whole frames as a client sends them
IdentFrame(allowed) ==
    [k |-> "Ident", allowed |-> allowed, username |-> <<>>, command |-> NoCommand]
LoginFrame(username) ==
    [k |-> "Login", allowed |-> TRUE, username |-> username, command |-> NoCommand]
CommandFrame(command) ==
    [k |-> "Command", allowed |-> TRUE, username |-> <<>>, command |-> command]

BatchFrames ==
    {IdentFrame(allowed) : allowed \in BOOLEAN}
      \cup {LoginFrame(username) : username \in SysLoginNames}
      \cup {CommandFrame([c |-> k, name |-> sX, pw |-> <<>>]) : k \in {"Join", "Send"}}

\* the phase process_messages is in after frame, read in phase
PhaseAfter(phase, frame) ==
    CASE phase = "Connected" -> IF frame.allowed THEN "Greeted" ELSE "Connected"
      [] phase = "Greeted" ->
             IF only_allowed_chars_not_empty(frame.username, ALLOWED_USERNAME_CHARS)
             THEN "LoggedIn" ELSE "Greeted"
      [] OTHER -> "LoggedIn"

\* the kind of frame that a phase parses
FrameKind(phase) ==
    CASE phase = "Connected" -> "Ident" [] phase = "Greeted" -> "Login" [] OTHER -> "Command"

\* the client follows the protocol: each frame of batch is of the kind of the
\* phase that the frames before it lead to
RECURSIVE FollowsProtocol(_, _)
FollowsProtocol(phase, batch) ==
    IF batch = <<>> THEN TRUE
    ELSE /\ Head(batch).k = FrameKind(phase)
         /\ FollowsProtocol(PhaseAfter(phase, Head(batch)), Tail(batch))

Batches == UNION {[1..n -> BatchFrames] : n \in 1..MaxBatch}

\* the frames of the last read that are still in received
Unprocessed(c) == SubSeq(inbox[c].batch, inbox[c].done + 1, Len(inbox[c].batch))

\* read_from_client returns true with the whole frames of batch; the buffer
\* was empty, process_messages runs next
ReadFrames(c, batch) ==
    /\ hstatus[c] \in {"Connected", "Greeted", "LoggedIn"}
    /\ rpc[c] = "read"
    /\ nframes + Len(batch) <= MaxBatchFrames
    /\ FollowsProtocol(hstatus[c], batch)
    /\ inbox' = [inbox EXCEPT ![c] = [batch |-> batch, done |-> 0]]
    /\ rpc' = [rpc EXCEPT ![c] = "process"]
    /\ nframes' = nframes + Len(batch)
    /\ UNCHANGED <<users, by_name, channels, games, events, cur, evOut, pending, brokerPc,
                   acceptPc, shutdown, hstatus, sub, wstatus, outbox, msgSeq, lastWritten,
                   minted, aged, received, trip>>

\* the phase's handler on the first frame left, which it drains before it sends
ProcessFrame(c, frame) ==
    CASE hstatus[c] = "Connected" ->
           /\ IF frame.allowed
              THEN Reply(c, IdentServerMessage, "Greeted")
              ELSE Reply(c, RejectServerMessage(
                                <<"Wrong game version. Please install version 2.2">>),
                         "Connected")
           /\ UNCHANGED <<events, sub>>
      [] hstatus[c] = "Greeted" ->
           IF only_allowed_chars_not_empty(frame.username, ALLOWED_USERNAME_CHARS)
           THEN /\ Submit(c, Event("NewUser", c, frame.username, NoCommand), "LoggedIn")
                /\ UNCHANGED <<outbox, msgSeq>>
           ELSE /\ Reply(c, RejectServerMessage(<<"translateInvalidCharactersInName">>),
                         "Greeted")
                /\ UNCHANGED <<events, sub>>
      [] OTHER ->
           /\ Submit(c, Event("Command", c, <<>>, frame.command), "LoggedIn")
           /\ UNCHANGED <<outbox, msgSeq>>

\* one turn of process_messages' loop that leaves the loop when the phase changes
ProcessTurn_one_phase(c) ==
    /\ hstatus[c] \in {"Connected", "Greeted", "LoggedIn"}
    /\ rpc[c] = "process"
    /\ ProcessFrame(c, Head(Unprocessed(c)))
    /\ inbox' = [inbox EXCEPT ![c].done = @ + 1]
    /\ rpc' = [rpc EXCEPT ![c] =
                 IF hstatus'[c] = "Stopping" THEN "process"
                 ELSE IF hstatus'[c] /= hstatus[c] \/ inbox[c].done + 1 = Len(inbox[c].batch)
                 THEN "read" ELSE "process"]
    /\ UNCHANGED <<users, by_name, channels, games, cur, evOut, pending, brokerPc, acceptPc,
                   shutdown, wstatus, lastWritten, nframes, minted, aged, received, trip>>

\* one turn of process_messages' loop: the handler of the phase takes the
\* first frame left; the loop ends when received is empty, and a failed send
\* ends the reader loop
ProcessTurn(c) ==
    /\ hstatus[c] \in {"Connected", "Greeted", "LoggedIn"}
    /\ rpc[c] = "process"
    /\ ProcessFrame(c, Head(Unprocessed(c)))
    /\ inbox' = [inbox EXCEPT ![c].done = @ + 1]
    /\ rpc' = [rpc EXCEPT ![c] =
                 IF hstatus'[c] = "Stopping" THEN "process"
                 ELSE IF inbox[c].done + 1 = Len(inbox[c].batch)
                 THEN "read" ELSE "process"]
    /\ UNCHANGED <<users, by_name, channels, games, cur, evOut, pending, brokerPc, acceptPc,
                   shutdown, wstatus, lastWritten, nframes, minted, aged, received, trip>>

\* read_from_client returns false
ReadEnd(c) == rpc[c] = "read" /\ ReaderStop(c)

\* one connection whose reads bring whole frames, one or several at a time,
\* served by the broker and by its writer
BatchNext ==
    \/ Accept(1, TRUE)
    \/ \E batch \in Batches : ReadFrames(1, batch)
    \/ ProcessTurn(1)
    \/ ReadEnd(1)
    \/ WriterStopped(1)
    \/ SubmitDrop(1)
    \/ WriterWrite(1)
    \/ WriterError(1)
    \/ WriterEnd(1)
    \/ BrokerHandle
    \/ BrokerResume

BatchSpec == Init /\ [][BatchNext]_vars

(* --------------------- properties of the broker ----------------------- *)
Range(f) == {f[x] : x \in DOMAIN f}
Live == DOMAIN users

\* C1: no two live users have usernames that are equal after ASCII
\* lowercasing, and the username index holds exactly one entry per live user,
\* keyed by the lowercased username and pointing at that user's id.
C1_UsernameIndex ==
    /\ \A i, j \in Live :
          to_ascii_lowercase(users[i].username) = to_ascii_lowercase(users[j].username)
            => i = j
    /\ DOMAIN by_name = {to_ascii_lowercase(users[i].username) : i \in Live}
    /\ \A i \in Live : /\ users[i].id = i
                       /\ by_name[to_ascii_lowercase(users[i].username)] = i

\* two users are live, one of them under a name with an upper-case letter
C1_Witness ==
    /\ Cardinality(Live) = 2
    /\ \E i \in Live : users[i].username = sFoo
    /\ Cardinality(DOMAIN by_name) = 2

\* C2: after every event, housekeeping included, the channels in broker
\* state are exactly the channels that are the location of at least one user.
C2_ChannelsOccupied ==
    /\ {ChannelLoc(channels[k]) : k \in DOMAIN channels}
         = {users[i].location : i \in {j \in Live : users[j].location.k = "Channel"}}
    /\ \A k \in DOMAIN channels : to_ascii_lowercase(channels[k]) = k

\* a DropClient emptied General, which was removed, while X stays occupied
C2_Witness ==
    /\ cur.type = "DropClient"
    /\ \E c \in Conn : DropChannelMessage(sGeneral) \in Range(evOut[c])
    /\ DOMAIN channels = {to_ascii_lowercase(sX)}
    /\ \E i \in Live : users[i].location = ChannelLoc(sX)

\* the step is the handling of connection c's NewUser event
IsNewUserStep(c) == hstatus[c] = "None" /\ hstatus'[c] = "LoggedIn"
\* the step is the handling of a Command event of connection c
IsCommandStep(c) == nframes' = nframes + 1 /\ cur'.id = c

\* C3: a NewUser event whose username is already live, compared
\* case-insensitively, makes the broker send no message on the new connection,
\* insert no user and leave users, channels and games as they were.
C3_DuplicateLoginSilent ==
    [][\A c \in Conn :
         (IsNewUserStep(c) /\ to_ascii_lowercase(cur'.username) \in DOMAIN by_name)
           => /\ evOut'[c] = <<>>
              /\ UNCHANGED <<users, by_name, channels, games>>]_vars

\* the position of the first occurrence of m in the sequence s at or after
\* position from, 0 when there is none
PosFrom(s, m, from) ==
    LET at == {n \in from..Len(s) : s[n] = m}
    IN  IF at = {} THEN 0 ELSE CHOOSE n \in at : \A n2 \in at : n <= n2

\* C4: after a NewUser event with a username that was not live, the new user
\* has been sent, in this order, Welcome, /$channel General 0 (exactly once),
\* /join General and its own /$user join notice, and is located in General.
C4_LoginSequence ==
    (cur.type = "NewUser" /\ cur.id \in Live) =>
        LET o == evOut[cur.id]
            w == PosFrom(o, WelcomeServerMessage, 1)
            ch == IF w = 0 THEN 0 ELSE PosFrom(o, NewChannelMessage(sGeneral), w + 1)
            jn == IF ch = 0 THEN 0 ELSE PosFrom(o, JoinChannelMessage(sGeneral), ch + 1)
            us == IF jn = 0 THEN 0
                  ELSE PosFrom(o, UserJoinedMessage(cur.username, <<>>), jn + 1)
        IN  /\ us /= 0
            /\ Cardinality({n \in 1..Len(o) : o[n] = NewChannelMessage(sGeneral)}) = 1
            /\ users[cur.id].location = ChannelLoc(sGeneral)

\* C5: when the only occupant of channel C joins a valid channel D that does
\* not exist yet, that user is sent /$channel D, then /join D with no $user
\* lines, and later /&channel C; afterwards C is gone, D exists and the user
\* is located in D.
C5_JoinNewChannel ==
    [][\A c \in Conn :
         (/\ IsCommandStep(c)
          /\ cur'.command.c = "Join"
          /\ c \in Live
          /\ users[c].location.k = "Channel"
          /\ \A d \in Live : users[d].location = users[c].location => d = c
          /\ only_allowed_chars_not_empty(cur'.command.name, ALLOWED_NAME_CHARS)
          /\ to_ascii_lowercase(cur'.command.name) \notin DOMAIN channels)
           => LET C == users[c].location.name
                  D == cur'.command.name
              IN  /\ evOut'[c] = <<NewChannelMessage(D), JoinChannelMessage(D),
                                   DropChannelMessage(C)>>
                  /\ to_ascii_lowercase(C) \notin DOMAIN channels'
                  /\ channels'[to_ascii_lowercase(D)] = D
                  /\ users'[c].location = ChannelLoc(D)]_vars

\* the last event was such a Join: General's only occupant moved to the new X
C5_Witness ==
    /\ cur.type = "Command" /\ cur.command.c = "Join" /\ cur.command.name = sX
    /\ evOut[cur.id] = <<NewChannelMessage(sX), JoinChannelMessage(sX),
                          DropChannelMessage(sGeneral)>>
    /\ users[cur.id].location = ChannelLoc(sX)

(* --------------------- properties of the server ----------------------- *)
\* C6: a broker send to a user whose outbound channel is full fails instead
\* of waiting: the broker is never suspended in a send of the event it handles.
C6_SendNeverWaits == pending = <<>>

\* the messages of the entries that the step appended to c's outbound channel
Appended(c) ==
    LET k == Len(outbox'[c]) - (msgSeq'[c] - msgSeq[c])
    IN  [i \in 1..(msgSeq'[c] - msgSeq[c]) |-> outbox'[c][k + i].m]

C8_OneDropClientLast ==
    \A c \in Conn :
        /\ sub[c].drops <= 1
        /\ hstatus[c] = "Done" => sub[c].drops = 1
        /\ sub[c].drops = 1 => sub[c].last = "DropClient" /\ hstatus[c] = "Done"

\* a handler that had logged in has ended because its writer stopped, and the
\* broker has taken its DropClient
C8_Witness ==
    /\ cur.type = "DropClient"
    /\ hstatus[cur.id] = "Done"
    /\ wstatus[cur.id] = "finished"
    /\ sub[cur.id].drops = 1

\* the writer of connection c has ended, or it is the writer of a connection
\* that has not logged in, or its peer has yet to take what is left to write
WriterSettled(c) ==
    \/ wstatus[c] /= "running"
    \/ hstatus[c] \in {"Connected", "Greeted"}
    \/ outbox[c] /= <<>>

\* C9: once the shutdown signal is set, the accept loop and the broker loop
\* both eventually exit, and once the broker has exited the writer task of
\* every user eventually terminates.
C9_ShutdownTerminates ==
    /\ shutdown ~> (acceptPc = "exited" /\ brokerPc = "exited")
    /\ (brokerPc = "exited") ~> (\A c \in Conn : WriterSettled(c))

\* C10: once every sender of the inbound event channel is dropped and the
\* queued events are handled, broker_loop ends, also in the runs in which the
\* shutdown signal is never set.
C10_LoopEndsWhenSendersDropped ==
    (EventsClosed /\ events = <<>> /\ pending = <<>>) ~> (brokerPc = "exited" \/ shutdown)

(* ------------------ properties of the game commands ------------------- *)
\* the step is the handling of a plays command of the live user c
IsHostGameStep(c) ==
    IsCommandStep(c) /\ cur'.command.c = "HostGame" /\ c \in Live

\* the step is the handling of a playc command of the live user c
IsJoinGameStep(c) ==
    IsCommandStep(c) /\ cur'.command.c = "JoinGame" /\ c \in Live

\* the key of the game that the command handled by the step names
GameKey == to_ascii_lowercase(cur'.command.name)

C12_RequestedToOpen ==
    [][\A k \in DOMAIN games' :
         (games'[k].status = "Open" /\ (k \in DOMAIN games => games[k].status /= "Open"))
           => /\ k \in DOMAIN games
              /\ games[k].status = "Requested"
              /\ \E c \in Conn :
                    /\ IsHostGameStep(c)
                    /\ GameKey = k
                    /\ games[k].hosted_by = c
                    /\ IsGuidText(cur'.command.pw)
                    /\ games'[k].id = cur'.command.pw
                    /\ \A d \in Live :
                          NewGameMessage(cur'.command.name, games'[k].id)
                            \in Range(evOut'[d])
                    /\ users'[c].location = GameLoc(games[k].name)]_vars

\* the host has just confirmed game X with a GUID while a second user is live
C12_Witness ==
    /\ cur.type = "Command" /\ cur.command.c = "HostGame"
    /\ Cardinality(Live) = 2
    /\ to_ascii_lowercase(sX) \in DOMAIN games
    /\ games[to_ascii_lowercase(sX)].status = "Open"
    /\ games[to_ascii_lowercase(sX)].id = cur.command.pw
    /\ \A d \in Live : NewGameMessage(sX, cur.command.pw) \in Range(evOut[d])
    /\ users[cur.id].location = GameLoc(sX)

\* C13: the invite token of every Open game is the GUID the server minted for
\* it and sent to the host in /plays.
C13_TokenIsMinted ==
    \A k \in DOMAIN games : games[k].status = "Open" => games[k].id = minted[k]

\* C14: a plays command naming an existing game is answered with the error
\* "Game already exists." and changes nothing when the sender is not the
\* game's host, or the game is Started, or the third parameter is not a GUID.
C14_PlaysRejected ==
    [][\A c \in Conn :
         (/\ IsHostGameStep(c)
          /\ only_allowed_chars_not_empty(cur'.command.name, ALLOWED_NAME_CHARS)
          /\ GameKey \in DOMAIN games
          /\ \/ games[GameKey].hosted_by /= c
             \/ games[GameKey].status = "Started"
             \/ ~IsGuidText(cur'.command.pw))
           => /\ evOut'[c] = <<ErrorMessage(<<"Game already exists.">>)>>
              /\ \A d \in Conn \ {c} : evOut'[d] = <<>>
              /\ games' = games
              /\ users' = users
              /\ by_name' = by_name
              /\ channels' = channels]_vars

\* the host of a Requested game X has just repeated plays with a plain password
C14_Witness ==
    /\ cur.type = "Command" /\ cur.command.c = "HostGame"
    /\ ~IsGuidText(cur.command.pw)
    /\ to_ascii_lowercase(cur.command.name) \in DOMAIN games
    /\ games[to_ascii_lowercase(cur.command.name)].hosted_by = cur.id
    /\ games[to_ascii_lowercase(cur.command.name)].status = "Requested"
    /\ evOut[cur.id] = <<ErrorMessage(<<"Game already exists.">>)>>

\* C15: no game with status Started is present in the games map once the
\* event that started it has been handled.
C15_NoStartedGame ==
    \A k \in DOMAIN games : games[k].status /= "Started"

\* C16: a playc command naming a game that is Requested or Started never
\* moves the caller into Game(name) and never gets a /playc reply, whatever
\* password or GUID the caller presents.
C16_OnlyOpenJoinable ==
    [][\A c \in Conn :
         (/\ IsJoinGameStep(c)
          /\ GameKey \in DOMAIN games
          /\ games[GameKey].status \in {"Requested", "Started"})
           => /\ users'[c].location = GameLoc(games[GameKey].name)
                   => users[c].location = GameLoc(games[GameKey].name)
              /\ \A i \in DOMAIN evOut'[c] : evOut'[c][i].t /= "/playc"]_vars

\* C17: a playc command for an existing game whose second parameter is neither
\* a GUID equal to the invite token nor equal to the stored password is
\* answered with the error "Invalid password" and changes nothing; a playc for
\* a missing game is answered with the error "Game does not exist".
C17_PlaycRejected ==
    [][\A c \in Conn :
         IsJoinGameStep(c)
           => /\ (/\ GameKey \in DOMAIN games
                  /\ cur'.command.pw /= games[GameKey].id
                  /\ cur'.command.pw /= games[GameKey].password)
                   => /\ evOut'[c] = <<ErrorMessage(<<"Invalid password">>)>>
                      /\ games' = games
                      /\ users' = users
                      /\ channels' = channels
              /\ GameKey \notin DOMAIN games
                   => evOut'[c] = <<ErrorMessage(<<"Game does not exist">>)>>]_vars

\* the step handles an event: the set of games older than 30 seconds does not grow
IsEventStep == aged' \subseteq aged

\* C18: after every event the games map holds no Requested game older than 30
\* seconds and no Open or Started game with nobody located in it; a removed
\* game that was Open is announced with /&play to all users, and a removed
\* Requested game with no /&play.
C18_GameHousekeeping ==
    [][IsEventStep
         => /\ \A k \in DOMAIN games' :
                 /\ ~(games'[k].status = "Requested" /\ k \in aged')
                 /\ games'[k].status \in {"Open", "Started"}
                      => \E c \in DOMAIN users' :
                            users'[c].location = GameLoc(games'[k].name)
            /\ \A k \in DOMAIN games \ DOMAIN games' :
                 /\ games[k].status = "Open"
                      => \A d \in DOMAIN users' :
                            DropGameMessage(games[k].name) \in Range(evOut'[d])
                 /\ games[k].status = "Requested"
                      => \A d \in Conn :
                            DropGameMessage(games[k].name) \notin Range(evOut'[d])]_vars

\* C19: a Requested game that is older than 30 seconds and is not confirmed by
\* its host is eventually gone from the games map, also when no further event
\* arrives.
C19_RequestedExpires ==
    \A k \in {to_ascii_lowercase(sX)} :
        (k \in DOMAIN games /\ games[k].status = "Requested" /\ k \in aged)
          ~> (k \notin DOMAIN games \/ games[k].status /= "Requested")

\* C20: when a user's Requested game is older than 30 seconds and unconfirmed,
\* the user's next plays command with the same name and a plain password is
\* answered with /plays, the game is a fresh Requested entry afterwards, and
\* no /&play is sent for the expired game.
C20_PlaysAfterExpiry ==
    [][\A c \in Conn :
         (/\ IsHostGameStep(c)
          /\ GameKey \in DOMAIN games
          /\ games[GameKey].status = "Requested"
          /\ games[GameKey].hosted_by = c
          /\ GameKey \in aged
          /\ ~IsGuidText(cur'.command.pw))
           => /\ \E g \in Guids :
                    evOut'[c] = <<CreateGameMessage(cur'.command.name, cur'.command.pw, g)>>
              /\ GameKey \in DOMAIN games'
              /\ games'[GameKey].status = "Requested"
              /\ GameKey \notin aged'
              /\ \A d \in Conn :
                    DropGameMessage(games[GameKey].name) \notin Range(evOut'[d])]_vars

(* ------------------- properties of the broker's commands --------------- *)
\* C21: for every Open game whose host is still a live user, the host is
\* located in Game(name) of that game after every event.
C21_HostInOpenGame ==
    \A k \in DOMAIN games :
        (games[k].status = "Open" /\ games[k].hosted_by \in DOMAIN users)
          => users[games[k].hosted_by].location = GameLoc(games[k].name)

\* the step is the handling of a command of kind k sent by the live user c
IsStepOf(c, k) == IsCommandStep(c) /\ cur'.command.c = k /\ c \in Live

\* C22: a Send command enqueues one /send with the sender's name and the
\* message for exactly the users located where the sender is, the sender
\* included, nothing for anybody else, and changes no broker state.
C22_SendToLocation ==
    [][\A c \in Conn :
         IsStepOf(c, "Send")
           => /\ \A d \in Conn :
                   evOut'[d] = IF d \in Live /\ users[d].location = users[c].location
                               THEN <<SendMessage(users[c].username, cur'.command.name)>>
                               ELSE <<>>
              /\ users' = users
              /\ by_name' = by_name
              /\ channels' = channels
              /\ games' = games]_vars

\* a Send has just been handled while the other live user is located elsewhere
C22_Witness ==
    /\ cur.type = "Command" /\ cur.command.c = "Send"
    /\ Cardinality(Live) = 2
    /\ \E d \in Live :
          /\ users[d].location /= users[cur.id].location
          /\ evOut[d] = <<>>
    /\ evOut[cur.id] = <<SendMessage(users[cur.id].username, cur.command.name)>>

\* the live users whose name equals the target of the step's private message
\* after ASCII lowercasing
Targets ==
    {t \in Live : to_ascii_lowercase(users[t].username) = to_ascii_lowercase(cur'.command.name)}

\* C23: a private message whose target has no # or $ prefix and names a live
\* user, compared case-insensitively, enqueues one /msgc echo for the sender
\* and then one /msg with the sender's rendered location for the target, and
\* nothing for any other user, wherever sender and target are located.
C23_PrivateToUser ==
    [][\A c \in Conn :
         (/\ IsStepOf(c, "PrivateMessage")
          /\ Head(cur'.command.name) \notin {"#", "$"}
          /\ Targets /= {})
           => \E t \in Targets :
                LET echo == SentPrivateMessage(users[t].username, cur'.command.pw)
                    msg == PrivateMessage(users[c].username, users[t].username,
                                          Location_to_string(users[c].location),
                                          cur'.command.pw)
                IN  /\ Targets = {t}
                    /\ evOut'[c] = IF t = c THEN <<echo, msg>> ELSE <<echo>>
                    /\ t /= c => evOut'[t] = <<msg>>
                    /\ \A d \in Conn \ {c, t} : evOut'[d] = <<>>]_vars

\* a private message has just gone from one user to another user whose name is
\* spelled differently in the target and who is located elsewhere
C23_Witness ==
    /\ cur.type = "Command" /\ cur.command.c = "PrivateMessage"
    /\ cur.id \in Live
    /\ \E t \in Live \ {cur.id} :
          /\ users[t].username /= cur.command.name
          /\ users[t].location /= users[cur.id].location
          /\ evOut[t] = <<PrivateMessage(users[cur.id].username, users[t].username,
                                         Location_to_string(users[cur.id].location),
                                         cur.command.pw)>>
          /\ evOut[cur.id] = <<SentPrivateMessage(users[t].username, cur.command.pw)>>

\* the target of the step's private message names nothing that exists
TargetMissing ==
    LET target == cur'.command.name
    IN  CASE Head(target) = "#" -> to_ascii_lowercase(Tail(target)) \notin DOMAIN channels
          [] Head(target) = "$" -> to_ascii_lowercase(Tail(target)) \notin DOMAIN games
          [] OTHER -> Targets = {}

\* the error the specification names for a missing target of that kind
MissingTargetError ==
    CASE Head(cur'.command.name) = "#" -> ErrorMessage(<<"Channel does not exist">>)
      [] Head(cur'.command.name) = "$" -> ErrorMessage(<<"Game does not exist">>)
      [] OTHER -> ErrorMessage(<<"User does not exist">>)

\* C24: a private message to a target that does not exist makes the sender
\* alone receive the error "Channel does not exist" for a # target, "Game does
\* not exist" for a $ target and "User does not exist" otherwise, with no echo
\* and no state change.
C24_PrivateMissingTarget ==
    [][\A c \in Conn :
         (IsStepOf(c, "PrivateMessage") /\ TargetMissing)
           => /\ evOut'[c] = <<MissingTargetError>>
              /\ \A d \in Conn \ {c} : evOut'[d] = <<>>
              /\ users' = users
              /\ by_name' = by_name
              /\ channels' = channels
              /\ games' = games]_vars

\* the key of the channel that the command handled by the step names
ChannelKey == to_ascii_lowercase(cur'.command.name)

\* C25: a Join whose name differs only in letter case from an existing channel
\* creates no channel, sends no /$channel to anybody, keeps the channel's
\* display name, and locates the joiner in the channel under the display name
\* of its first creator.
C25_JoinOtherCase ==
    [][\A c \in Conn :
         (/\ IsStepOf(c, "Join")
          /\ ChannelKey \in DOMAIN channels
          /\ cur'.command.name /= channels[ChannelKey])
           => /\ DOMAIN channels' \subseteq DOMAIN channels
              /\ ChannelKey \in DOMAIN channels'
              /\ channels'[ChannelKey] = channels[ChannelKey]
              /\ \A d \in Conn : \A i \in DOMAIN evOut'[d] : evOut'[d][i].t /= "/$channel"
              /\ users'[c].location = ChannelLoc(channels[ChannelKey])
              /\ \A d \in Live \ {c} : users'[d].location = users[d].location]_vars

\* a user has just moved, by a Join spelled in another letter case, into the
\* channel where the other user is
C25_Witness ==
    /\ cur.type = "Command" /\ cur.command.c = "Join"
    /\ cur.id \in Live
    /\ to_ascii_lowercase(cur.command.name) \in DOMAIN channels
    /\ channels[to_ascii_lowercase(cur.command.name)] /= cur.command.name
    /\ \E d \in Live \ {cur.id} : users[d].location = users[cur.id].location
    /\ users[cur.id].location = ChannelLoc(channels[to_ascii_lowercase(cur.command.name)])
    /\ JoinChannelMessage(channels[to_ascii_lowercase(cur.command.name)])
         \in Range(evOut[cur.id])

\* C26: a Join naming the channel the user is located in, compared
\* case-insensitively, enqueues no message for any user and leaves users,
\* channels and games as they were.
C26_JoinSameChannel ==
    [][\A c \in Conn :
         (/\ IsStepOf(c, "Join")
          /\ users[c].location.k = "Channel"
          /\ to_ascii_lowercase(users[c].location.name) = ChannelKey)
           => /\ \A d \in Conn : evOut'[d] = <<>>
              /\ users' = users
              /\ by_name' = by_name
              /\ channels' = channels
              /\ games' = games]_vars

\* a user located in a channel together with the other user has just sent a
\* Join naming that channel in another letter case
C26_Witness ==
    /\ cur.type = "Command" /\ cur.command.c = "Join"
    /\ Cardinality(Live) = 2
    /\ \A d \in Live : users[d].location.k = "Channel"
                         /\ users[d].location.name /= cur.command.name
                         /\ to_ascii_lowercase(users[d].location.name)
                              = to_ascii_lowercase(cur.command.name)
    /\ \A d \in Conn : evOut[d] = <<>>

\* the step is the handling of the DropClient event of the live user c
IsDropStep(c) ==
    hstatus[c] = "LoggedIn" /\ hstatus'[c] = "Done" /\ cur'.type = "DropClient" /\ c \in Live

\* the /&user messages among the messages the step's handler sent to d
UserLeftSent(d) == SelectSeq(evOut'[d], LAMBDA m : m.t = "/&user")

\* C27: a DropClient for a live user removes the user from the id map and from
\* the username index and enqueues /&user with the username and no
\* destination for exactly the users that remain in the location the user was
\* in; a NewUser whose lowercased name is not in the index is accepted.
C27_DropClient ==
    [][\A c \in Conn :
         /\ IsDropStep(c)
              => /\ DOMAIN users' = DOMAIN users \ {c}
                 /\ DOMAIN by_name' = DOMAIN by_name \ {to_ascii_lowercase(users[c].username)}
                 /\ evOut'[c] = <<>>
                 /\ \A d \in Live \ {c} :
                       UserLeftSent(d) = IF users[d].location = users[c].location
                                         THEN <<UserLeftMessage(users[c].username, <<>>)>>
                                         ELSE <<>>
         /\ (IsNewUserStep(c) /\ to_ascii_lowercase(cur'.username) \notin DOMAIN by_name)
              => /\ c \in DOMAIN users'
                 /\ users'[c].username = cur'.username
                 /\ by_name'[to_ascii_lowercase(cur'.username)] = c]_vars

\* a user has just been dropped from the location where the other user is
C27_Witness ==
    /\ cur.type = "DropClient"
    /\ hstatus[cur.id] = "Done"
    /\ cur.id \notin Live
    /\ \E d \in Live :
          \E i \in DOMAIN evOut[d] :
             /\ evOut[d][i].t = "/&user"
             /\ Len(evOut[d][i].a) = 1
             /\ to_ascii_lowercase(evOut[d][i].a[1]) \notin DOMAIN by_name

\* the counters of the broker's state: the fields of SyncStatsMessage
Counters ==
    [users_total |-> Cardinality(DOMAIN users),
     users_online |-> Cardinality(DOMAIN users),
     channels_total |-> Cardinality(DOMAIN channels),
     games_total |-> Cardinality(DOMAIN games),
     games_open |-> Cardinality({k \in DOMAIN games : games[k].status = "Open"})]

\* C28: after every event /syncstats with the recomputed counters is sent to
\* all users when a counter differs from its value after the previous event,
\* and to nobody when no counter differs.
C28_SyncStats ==
    [][/\ Counters' /= Counters
            => \A d \in DOMAIN users' : SyncStatsMessage(Counters') \in Range(evOut'[d])
       /\ Counters' = Counters
            => \A d \in Conn : \A i \in DOMAIN evOut'[d] : evOut'[d][i].t /= "/syncstats"]_vars

(* ------------------- properties of the client handler ------------------ *)
\* the step is the processing of a frame of connection c that is counted
\* against MaxFrames, taken in the given phase
IsFrameStep(c, phase) ==
    /\ hstatus[c] = phase
    /\ nframes' = nframes + 1
    /\ msgSeq'[c] /= msgSeq[c] \/ hstatus'[c] /= hstatus[c] \/ sub'[c] /= sub[c]

\* the step enqueued msg for connection c's writer, kept c in its phase and
\* submitted no event
RejectedInPhase(c, msg) ==
    /\ hstatus'[c] = hstatus[c]
    /\ outbox'[c] = Append(outbox[c], [n |-> msgSeq[c] + 1, m |-> msg])
    /\ events' = events
    /\ sub' = sub

\* C29: an Ident with a wrong game version produces one Reject and leaves the
\* handler Connected, a Login with an empty or disallowed username produces
\* one Reject and leaves the handler Greeted; no event is submitted.
C29_RejectKeepsPhase ==
    [][\A c \in Conn :
         /\ IsFrameStep(c, "Connected")
              => RejectedInPhase(c, RejectServerMessage(
                                        <<"Wrong game version. Please install version 2.2">>))
         /\ IsFrameStep(c, "Greeted")
              => RejectedInPhase(c, RejectServerMessage(
                                        <<"translateInvalidCharactersInName">>))]_vars

\* C29 as it holds: the same, for a connection whose writer is running.
C29_RejectKeepsPhaseWhileWriting ==
    [][\A c \in Conn :
         wstatus[c] = "running"
           => /\ IsFrameStep(c, "Connected")
                   => RejectedInPhase(c, RejectServerMessage(
                                        <<"Wrong game version. Please install version 2.2">>))
              /\ IsFrameStep(c, "Greeted")
                   => RejectedInPhase(c, RejectServerMessage(
                                        <<"translateInvalidCharactersInName">>))]_vars

\* a connection was sent a Reject for its Ident and then the Ident reply for
\* a later, valid Ident
C29_Witness ==
    \E c \in Conn :
       /\ hstatus[c] = "Greeted"
       /\ nframes = 1
       /\ msgSeq[c] = 2
       /\ outbox[c] /= <<>>
       /\ outbox[c][Len(outbox[c])] = [n |-> 2, m |-> IdentServerMessage]

\* the step is a turn of process_messages for the logged-in connection c
IsProcessStep(c) ==
    /\ hstatus[c] = "LoggedIn"
    /\ rpc[c] = "process"
    /\ rpc'[c] /= rpc[c] \/ hstatus'[c] /= hstatus[c] \/ received'[c] /= received[c]

\* C30: in the LoggedIn phase a receive buffer of more than 1024 bytes without
\* a NUL ends the reader: no Command event is submitted for it, nothing more
\* is read, and the handler's next submission is DropClient; a buffer of at
\* most 1024 bytes without a NUL is left as it is and the reader reads on.
C30_MessageTooLong ==
    [][\A c \in Conn :
         /\ (IsProcessStep(c) /\ received[c].frames = 0 /\ received[c].tail > 1024)
              => /\ hstatus'[c] = "Stopping"
                 /\ events' = events
                 /\ sub' = sub
                 /\ received' = received
         /\ (IsProcessStep(c) /\ received[c].frames = 0 /\ received[c].tail <= 1024)
              => /\ hstatus'[c] = "LoggedIn"
                 /\ rpc'[c] = "read"
                 /\ events' = events
                 /\ sub' = sub
                 /\ received' = received
         /\ hstatus[c] \in {"Stopping", "Done"}
              => /\ received' = received
                 /\ hstatus'[c] /= hstatus[c]
                      => /\ hstatus'[c] = "Done"
                         /\ sub'[c] = [last |-> "DropClient", drops |-> sub[c].drops + 1]]_vars

\* the reader has ended on a buffer of 1025 bytes without a NUL and has
\* submitted its DropClient
C30_Witness ==
    \E c \in Conn :
       /\ hstatus[c] = "Done"
       /\ received[c] = [frames |-> 0, tail |-> 1025]
       /\ sub[c] = [last |-> "DropClient", drops |-> 1]

(* ------------------------- properties of update ----------------------- *)
\* a user of a further connection, which other is not the id of
Bystander(location) ==
    [id |-> 0, username |-> <<"z">>, location |-> location, ip_addr |-> PeerAddr(1)]

\* the places a user can be moved to or stand in
MoveTargets ==
    {users[i].location : i \in Live} \cup {ChannelLoc(sX), GameLoc(sX)}

\* the broker the update starts from: the state with the bystander logged in
WithBystander(location) ==
    [users |-> MapInsert(users, 0, Bystander(location)),
     by_name |-> MapInsert(by_name, <<"z">>, 0),
     channels |-> channels, games |-> games, out |-> <<>>]

\* the sends of msg to the users of ord that stand in location, u left out
NoticesTo(b, ord, u, location, msg) ==
    LET ids == SelectSeq(ord, LAMBDA i : i /= u /\ b.users[i].location = location)
    IN  [k \in 1..Len(ids) |-> <<ids[k], msg>>]

\* C33: Users::update of a live user from prev to another place next sends
\* /$user <username> <version-index> <prev rendered> to the users in next,
\* then /&user <username> <next rendered> to the users in prev, and stores the
\* new location; the moving user is sent neither; with prev = next nothing is
\* sent at all.
C33_UpdateNotices ==
    \A u \in Live : \A next \in MoveTargets : \A at \in MoveTargets \cup {users[u].location} :
      \A ord \in Perms(Live \cup {0}) :
        LET b == WithBystander(at)
            prev == users[u].location
            b2 == Users_update(b, ord, [users[u] EXCEPT !.location = next])
            joined == Msg("/$user", <<users[u].username, <<"0">>, Location_to_string(prev)>>)
            left == Msg("/&user", <<users[u].username, Location_to_string(next)>>)
        IN  /\ b2.out = IF prev = next THEN <<>>
                        ELSE NoticesTo(b, ord, u, next, joined)
                               \o NoticesTo(b, ord, u, prev, left)
            /\ b2.users = [b.users EXCEPT ![u].location = next]
            /\ b2.by_name = b.by_name

\* the last event moved its sender into the channel of another user, who was
\* sent the /$user line that names the channel the sender came from
C33_Witness ==
    /\ cur.type = "Command" /\ cur.command.c = "Join" /\ cur.id \in Live
    /\ users[cur.id].location = ChannelLoc(sX)
    /\ \E d \in Live \ {cur.id} :
         /\ users[d].location = ChannelLoc(sX)
         /\ evOut[d] /= <<>>
         /\ Head(evOut[d]) = Msg("/$user", <<users[cur.id].username, <<"0">>,
                                              <<"#">> \o sGeneral>>)

(* ------------------------ properties of locations --------------------- *)
\* the place exists: a channel of the channel map or a game of the games map
LocationExists(l) ==
    \/ l.k = "Channel" /\ to_ascii_lowercase(l.name) \in DOMAIN channels
    \/ l.k = "Game" /\ to_ascii_lowercase(l.name) \in DOMAIN games

\* C34: after every event every live user's location names a channel of the
\* channel map or a game of the games map; nobody is Nowhere once the NewUser
\* is handled, and nobody is left in a removed game or channel.
C34_LocationsExist == \A u \in Live : LocationExists(users[u].location)

\* one user stands in a game and another in a channel other than the default,
\* after a channel was removed
C34_Witness ==
    /\ \E u \in Live : users[u].location.k = "Game"
    /\ \E u \in Live : users[u].location = ChannelLoc(sX)
    /\ to_ascii_lowercase(DEFAULT_CHANNEL) \notin DOMAIN channels

(* ---------------------- properties of a game record ------------------- *)
\* the place of a status in the life of a game
StatusRank(status) ==
    CASE status = "Requested" -> 1 [] status = "Open" -> 2 [] OTHER -> 3

\* C35: while a game record exists its host id, host IP and password never
\* change, its status only advances Requested, Open, Started, and only the
\* handling of a command of its host changes its status or its invite token.
C35_GameRecordStable ==
    [][\A k \in DOMAIN games \cap DOMAIN games' :
         /\ games'[k].hosted_by = games[k].hosted_by
         /\ games'[k].host_ip = games[k].host_ip
         /\ games'[k].password = games[k].password
         /\ StatusRank(games'[k].status) >= StatusRank(games[k].status)
         /\ (games'[k].status /= games[k].status \/ games'[k].id /= games[k].id)
              => IsCommandStep(games[k].hosted_by)]_vars

\* a game was opened and started by its host while another user was logged in
\* and had sent a command
C35_Witness ==
    \E k \in DOMAIN games :
      /\ games[k].status = "Started"
      /\ games[k].id /= ZeroGuid
      /\ cur.type = "Command" /\ cur.id /= games[k].hosted_by /\ cur.id \in Live

\* C36: a host confirmation that is handled when the Requested game is
\* already older than 30 seconds does not open the game.
C36_LateConfirmation ==
    [][\A c \in Conn :
         (/\ IsHostGameStep(c)
          /\ GameKey \in DOMAIN games
          /\ games[GameKey].status = "Requested"
          /\ GameKey \in aged)
           => (GameKey \in DOMAIN games' => games'[GameKey].status /= "Open")]_vars

(* ------------------- properties of unknown connections ---------------- *)
\* the step handles an event of connection c, which submitted its NewUser
\* and which the broker does not hold
IsUnknownStep(c) ==
    /\ hstatus[c] = "LoggedIn" /\ c \notin Live /\ cur'.id = c
    /\ \/ nframes' = nframes + 1 /\ cur'.type = "Command"
       \/ hstatus'[c] = "Done" /\ cur'.type = "DropClient"

\* C38: an event with the id of a connection the broker does not hold never
\* affects another user: a Command enqueues no message and changes nothing,
\* and a DropClient leaves the live owner of the same username logged in,
\* with its location and its entry of the username index intact.
C38_UnknownConnection ==
    [][\A c \in Conn :
         IsUnknownStep(c)
           => /\ \A d \in Conn : evOut'[d] = <<>>
              /\ users' = users
              /\ by_name' = by_name
              /\ channels' = channels
              /\ games' = games]_vars

\* the DropClient of a connection refused as a duplicate was handled while
\* the owner of the username is logged in
C38_Witness ==
    /\ cur.type = "DropClient" /\ cur.id \notin Live /\ hstatus[cur.id] = "Done"
    /\ \E d \in Live :
         /\ hstatus[d] = "LoggedIn"
         /\ by_name[to_ascii_lowercase(users[d].username)] = d
         /\ users[d].location = ChannelLoc(sX)
    /\ \A d \in Conn : evOut[d] = <<>>

(* --------------------- properties of broker_loop ---------------------- *)
\* C37: no command of a logged-in user stops the broker: the handling of a
\* PrivateMessage completes for every target string, the empty string
\* included, and the broker goes on to handle the events that follow.
C37_BrokerSurvives == brokerPc /= "panicked"

(* -------------------- properties of command lines --------------------- *)
\* C31: an empty command line, a frame of the NUL terminator alone, is
\* accepted: it produces no event at the broker and no message to any user,
\* in particular no /error to the sender.
C31_EmptyLineSilent ==
    [][\A c \in Conn :
         (/\ nframes' = nframes + 1
          /\ trip'.stage = "submitted" /\ trip'.conn = c /\ trip'.line = <<>>)
           => /\ cur' = cur
              /\ \A d \in Conn : evOut'[d] = <<>>]_vars

\* C32: for every well-formed command line, parsing it, rendering the verb
\* and the parameters with the outbound renderer (every parameter quoted, an
\* embedded quote written %22) and parsing the result again yields the same
\* verb and the same parameter sequence, empty parameters and parameters
\* containing whitespace included.
C32_ParseRenderParse ==
    trip.stage = "reparsed"
      => /\ trip.second.ok
         /\ trip.second.command = trip.first.command
         /\ trip.second.params = trip.first.params

\* a line went round whose parameters are an unquoted one holding a line
\* feed and an empty one, under a verb typed in capitals
C32_Witness ==
    /\ trip.stage = "reparsed"
    /\ trip.line = <<"/", "B", SP, "B", LF, SP, QUOTE>>
    /\ trip.first = RawCommand(<<"b">>, <<<<"B", LF>>, <<>>>>)
    /\ trip.wire = <<"/", "b", SP, QUOTE, "B", LF, QUOTE, SP, QUOTE, QUOTE, NUL>>
    /\ trip.second = trip.first

(* ------------------ properties of the events of a handler ------------- *)
Phases == {"Connected", "Greeted", "LoggedIn"}

\* the step is a turn of process_messages on the next frame of c's last read
IsTurn(c) ==
    inbox'[c].batch = inbox[c].batch /\ inbox'[c].done = inbox[c].done + 1

\* the step puts an event of connection c with these fields at the end of the
\* broker's inbound channel, unless broker_loop has ended
Enqueues(c, type, username, command) ==
    brokerPc = "running"
      => /\ Len(events') = Len(events) + 1
         /\ SubSeq(events', 1, Len(events)) = events
         /\ events'[Len(events')].type = type
         /\ events'[Len(events')].id = c
         /\ events'[Len(events')].username = username
         /\ events'[Len(events')].command = command

\* C39: the events a handler submits for its connection are at most one
\* NewUser, submitted only for a Login frame with a valid username that
\* follows an Ident frame with the allowed version, then Commands, none
\* before the NewUser, then DropClient and nothing after it; frames that
\* arrive together in one read are processed one by one in arrival order,
\* each by the phase the frames before it led to, before the next read.
C39_EventOrder ==
    [][\A c \in Conn :
         LET frame == inbox[c].batch[inbox[c].done + 1] IN
         /\ sub'[c] /= sub[c] => IsTurn(c) \/ sub'[c].last = "DropClient"
         /\ events' /= events /\ Len(events') > Len(events) /\ events'[Len(events')].id = c
              => IsTurn(c) \/ sub'[c].last = "DropClient"
         /\ IsTurn(c)
              => /\ hstatus[c] \in Phases
                 /\ inbox[c].done < Len(inbox[c].batch)
                 /\ CASE hstatus[c] = "Connected" ->
                           /\ frame.k = "Ident"
                           /\ sub'[c] = sub[c] /\ events' = events
                           /\ hstatus'[c] = "Greeted" => frame.allowed
                           /\ hstatus'[c] \in {"Connected", "Greeted", "Stopping"}
                      [] hstatus[c] = "Greeted" ->
                           /\ frame.k = "Login"
                           /\ IF only_allowed_chars_not_empty(frame.username,
                                                              ALLOWED_USERNAME_CHARS)
                              THEN /\ sub[c].last = "none" /\ sub'[c].last = "NewUser"
                                   /\ Enqueues(c, "NewUser", frame.username, NoCommand)
                                   /\ hstatus'[c] \in {"LoggedIn", "Stopping"}
                              ELSE /\ sub'[c] = sub[c] /\ events' = events
                                   /\ hstatus'[c] \in {"Greeted", "Stopping"}
                      [] OTHER ->
                           /\ frame.k = "Command"
                           /\ sub[c].last \in {"NewUser", "Command"}
                           /\ sub'[c].last = "Command"
                           /\ Enqueues(c, "Command", <<>>, frame.command)
                           /\ hstatus'[c] \in {"LoggedIn", "Stopping"}
         /\ sub[c].last = "DropClient" => sub'[c] = sub[c] /\ ~IsTurn(c)
         /\ sub'[c].last = "DropClient" /\ sub[c].last /= "DropClient"
              => hstatus[c] = "Stopping" /\ hstatus'[c] = "Done"
         /\ hstatus'[c] = "LoggedIn" /\ hstatus[c] /= "LoggedIn"
              => hstatus[c] = "Greeted" /\ sub'[c].last = "NewUser"
         /\ hstatus'[c] \in Phases /\ rpc'[c] = "read"
              => inbox'[c].done = Len(inbox'[c].batch)]_vars

\* one read brought the Ident, the Login and a command, and the handler has
\* processed the three: it is logged in and its last event is the Command
C39_Witness ==
    /\ inbox[1].batch = <<IdentFrame(TRUE), LoginFrame(sfoo),
                          CommandFrame([c |-> "Join", name |-> sX, pw |-> <<>>])>>
    /\ inbox[1].done = 3
    /\ hstatus[1] = "LoggedIn" /\ rpc[1] = "read"
    /\ sub[1].last = "Command"
    /\ cur.type = "Command" /\ cur.id = 1 /\ users[1].location = ChannelLoc(sX)

(* ---------------- properties of a refused duplicate login ------------- *)
\* the broker has taken the NewUser of connection c and refused it
Refused(c) == cur.type = "NewUser" /\ cur.id = c /\ c \notin DOMAIN users

\* C40: a connection whose NewUser was refused as a duplicate login is
\* eventually torn down, also when its client stays connected and sends
\* nothing: the refused user's sender is dropped, the writer ends, the reader
\* sees the writer's shutdown signal, stops and submits DropClient.
C40_RefusedTornDown ==
    \A c \in Conn : Refused(c) ~> (wstatus[c] = "finished" /\ sub[c].last = "DropClient")

\* the refused connection's writer wrote the Ident reply and the Reject and
\* ended, and the handler, whose peer never closed, has submitted DropClient
\* while the owner of the username is still logged in
C40_Witness ==
    /\ Refused(2)
    /\ 1 \in DOMAIN users /\ hstatus[1] = "LoggedIn"
    /\ wstatus[2] = "finished" /\ lastWritten[2] = 2 /\ msgSeq[2] = 2
    /\ hstatus[2] = "Done" /\ sub[2].last = "DropClient"
====
